---- MODULE Spec2Model ----
(***************************************************************************)
(* Model of the recording subsystem of terminal-mcp:                       *)
(*   src/src/recording/recorder.ts  (class Recorder)                       *)
(*   src/src/recording/manager.ts   (class RecordingManager)               *)
(*                                                                         *)
(* Time.  Date.now() is a millisecond wall clock.  The model's clock `now` *)
(* counts ticks of MsPerTick milliseconds since an arbitrary epoch and is  *)
(* assumed not to run backwards.  Every duration option (idleTimeLimit,    *)
(* maxDuration, inactivityTimeout) is a JavaScript number of seconds; the  *)
(* model draws them as whole numbers of ticks: k * MsPerTick / 1000 s.     *)
(*                                                                         *)
(* Numbers.  Event timestamps are JavaScript numbers, i.e. IEEE-754        *)
(* binary64 values.  They are modelled bit for bit: a value is a record    *)
(* [e, m] with m a sequence of MantBits bits (most significant first,      *)
(* leading bit 1) standing for  m * 2^e ; zero is FZero.  Division and     *)
(* addition round to nearest, ties to even, as the language requires.      *)
(***************************************************************************)
EXTENDS Integers, Sequences, FiniteSets, TLC

\* ------------------------------------------------------------------ bounds

\* clock resolution: milliseconds per tick
MsPerTick == 100

\* no recording is started after this tick of the clock
MaxNow == 4

\* events delivered to one recording
MaxEvents == 2

\* ------------------------------------------------------- binary64 numbers

\* width of the significand of a JavaScript number
MantBits == 53

FZero == [e |-> 0, m |-> << >>]

\* Bit strings are sequences of 0 and 1, most significant bit first.  The
\* arithmetic on them works in limbs of 13 bits, so that every intermediate
\* number stays well inside the model checker's integers.
Limb == 2^13

Zeros(k) == [i \in 1..k |-> 0]

RECURSIVE NatBits(_)
\* binary digits of a natural number, without leading zeros
NatBits(n) == IF n = 0 THEN << >> ELSE Append(NatBits(n \div 2), n % 2)

RECURSIVE BitsVal(_, _, _)
\* the number written by the bits s[i..j]
BitsVal(s, i, j) == IF i > j THEN 0 ELSE 2 * BitsVal(s, i, j - 1) + s[j]

\* s with zeros in front, n bits long
Pad(s, n) == Zeros(n - Len(s)) \o s

\* the limbs of a bit string whose length is a multiple of 13
Limbs(s) == [k \in 1..(Len(s) \div 13) |-> BitsVal(s, 13 * (k - 1) + 1, 13 * k)]

\* the bit string of a sequence of limbs
LimbBits(v) ==
    [i \in 1..(13 * Len(v)) |-> (v[(i - 1) \div 13 + 1] \div 2^(12 - ((i - 1) % 13))) % 2]

RECURSIVE CarryIn(_, _, _, _)
\* the carry into limb k of the sum of two limb sequences
CarryIn(va, vb, c, k) ==
    IF k = Len(va) THEN c
    ELSE (va[k + 1] + vb[k + 1] + CarryIn(va, vb, c, k + 1)) \div Limb

\* sum of two bit strings and a carry (with leading zeros)
BAddC(a, b, c) ==
    LET longer == IF Len(a) > Len(b) THEN Len(a) ELSE Len(b)
        n  == 13 * ((longer + 13) \div 13)
        va == Limbs(Pad(a, n))
        vb == Limbs(Pad(b, n))
    IN  LimbBits([k \in 1..Len(va) |-> (va[k] + vb[k] + CarryIn(va, vb, c, k)) % Limb])

\* a bit string without its leading zeros
StripZeros(a) ==
    LET ones == {i \in 1..Len(a) : a[i] = 1}
    IN  IF ones = {} THEN << >>
        ELSE SubSeq(a, CHOOSE i \in ones : \A j \in ones : i <= j, Len(a))

\* round the exact value bits * 2^e to MantBits bits, nearest, ties to even
FRound(bits, e) ==
    LET v == StripZeros(bits)
        n == Len(v)
    IN  IF n = 0 THEN FZero
        ELSE IF n <= MantBits
        THEN [e |-> e - (MantBits - n), m |-> v \o Zeros(MantBits - n)]
        ELSE LET keep   == SubSeq(v, 1, MantBits)
                 guard  == v[MantBits + 1]
                 sticky == \E i \in (MantBits + 2)..n : v[i] = 1
                 up     == guard = 1 /\ (sticky \/ keep[MantBits] = 1)
                 r      == IF up THEN StripZeros(BAddC(keep, << >>, 1)) ELSE keep
             IN  IF Len(r) > MantBits
                 THEN [e |-> e + (n - MantBits) + 1, m |-> SubSeq(r, 1, MantBits)]
                 ELSE [e |-> e + (n - MantBits), m |-> r]

RECURSIVE FracLimbs(_, _, _)
\* the first k limbs of the binary expansion of r / d, for r < d < 2^18
FracLimbs(r, d, k) ==
    IF k = 0 THEN << >>
    ELSE <<(r * Limb) \div d>> \o FracLimbs((r * Limb) % d, d, k - 1)

RECURSIVE FracRest(_, _, _)
\* what is left of r after those k limbs
FracRest(r, d, k) == IF k = 0 THEN r ELSE FracRest((r * Limb) % d, d, k - 1)

\* the binary64 quotient n / d of two naturals: 78 bits of the fraction and
\* one more bit for what is left are enough to round it
FDiv(n, d) ==
    LET frac == LimbBits(FracLimbs(n % d, d, 6))
        rest == IF FracRest(n % d, d, 6) = 0 THEN 0 ELSE 1
    IN  FRound(NatBits(n \div d) \o frac \o <<rest>>, 0 - 79)

\* the binary64 sum x + y
FAdd(x, y) ==
    IF x = FZero THEN y
    ELSE IF y = FZero THEN x
    ELSE LET e  == IF x.e < y.e THEN x.e ELSE y.e
             ax == x.m \o Zeros(x.e - e)
             ay == y.m \o Zeros(y.e - e)
         IN  FRound(BAddC(ax, ay, 0), e)

\* a < b for bit strings of equal length
BitsLess(a, b) ==
    \E i \in 1..Len(a) : a[i] < b[i] /\ \A j \in 1..(i - 1) : a[j] = b[j]

\* x < y
FLess(x, y) ==
    IF y = FZero THEN FALSE
    ELSE IF x = FZero THEN TRUE
    ELSE IF x.e # y.e THEN x.e < y.e
    ELSE BitsLess(x.m, y.m)

\* ------------------------------------------------------------------ inputs

\* the ids generateId returns, in the order in which it returns them
IdOrder == <<"r1", "r2">>

\* the ids of a session with one recording
Ids == {"r1"}

\* the ids of a session with two recordings
AllIds == {IdOrder[i] : i \in 1..Len(IdOrder)}

\* the id of S that was generated first
First(S) == IdOrder[CHOOSE i \in 1..Len(IdOrder) :
                       /\ IdOrder[i] \in S
                       /\ \A j \in 1..(i - 1) : IdOrder[j] \notin S]

Null == "null"

\* option values, in ticks: 0 switches the feature off
IdleTimeLimits == {0, 1}

MaxDurations == {0, 4}

InactivityTimeouts == {0, 3}

\* the options createRecording is called with: every combination of limit
\* and timers under on-failure, none or all of them under always, none
\* under off
Options ==
    [mode : {"on-failure"}, idleTimeLimit : IdleTimeLimits,
     maxDuration : MaxDurations, inactivityTimeout : InactivityTimeouts]
    \cup
    [mode : {"always"}, idleTimeLimit : {0}, maxDuration : {0}, inactivityTimeout : {0}]
    \cup
    [mode : {"always"}, idleTimeLimit : {1}, maxDuration : {4}, inactivityTimeout : {3}]
    \cup
    [mode : {"off"}, idleTimeLimit : {0}, maxDuration : {0}, inactivityTimeout : {0}]

\* Process exit codes are written as text: "0", "7"; Null: not known.

Data == {"a"}

\* terminal dimensions: <<cols, rows>>
Sizes == {<<80, 24>>}

\* milliseconds per second: the divisor in getElapsedSeconds
MsPerSecond == 1000

\* the longest span of ticks the model measures
MaxSpan == MaxNow + 4 * (MaxEvents + 1)

\* the quotients ms / 1000 of the spans, computed once
SecondsTable == [k \in 0..MaxSpan |-> FDiv(k * MsPerTick, MsPerSecond)]

\* a span of k ticks in seconds, as getElapsedSeconds computes it from the
\* milliseconds: ms / 1000
Seconds(k) == SecondsTable[k]

\* ------------------------------------------------------------------- state

VARIABLES
    now,         \* Date.now(), in ticks
    recorders,   \* the Recorder objects, by id
    created,     \* ids generated so far
    recordings,  \* keys of RecordingManager.recordings
    files,       \* the file system: temp, final and side-file of each id
    inflight,    \* the finalize calls waiting for their write stream to close
    returned,    \* the metadata the finalize calls have returned
    call,        \* the last call that returns a value or throws, and its outcome
    finalizeAllRun, \* the call of finalizeAll: its arguments, results, state
    process,     \* the node process: up, or down after an uncaught exception
    callbacks,   \* the metadata the auto-finalize callbacks were invoked with
    terminal     \* the TerminalManager: its session, options.record, autoRecordingId

vars == <<now, recorders, created, recordings, files, inflight, returned, call,
          finalizeAllRun, process, callbacks, terminal>>

NoTimer == [set |-> FALSE, armed |-> FALSE, at |-> 0]

Timer(deadline) == [set |-> TRUE, armed |-> TRUE, at |-> deadline]

\* a Recorder as its constructor leaves it
Recorder(mode, idleTimeLimit, maxDuration, inactivityTimeout) ==
    [ mode              |-> mode,
      idleTimeLimit     |-> idleTimeLimit,
      maxDuration       |-> maxDuration,
      inactivityTimeout |-> inactivityTimeout,
      writeStream       |-> Null,
      startTime         |-> 0,
      bytesWritten      |-> 0,
      finalized         |-> FALSE,
      lastEventTime     |-> 0,
      adjustedElapsed   |-> FZero,
      maxDurationTimer  |-> NoTimer,
      inactivityTimer   |-> NoTimer,
      stopReason        |-> "explicit",
      onAutoFinalize    |-> FALSE,   \* a callback is registered
      lines             |-> << >>,   \* what went to the write stream
      finalizeRuns      |-> 0 ]

NoFiles == [temp |-> FALSE, final |-> FALSE, meta |-> FALSE]

NoCall == [op |-> "none", id |-> "", result |-> "ok"]

\* the process runs; failed: the Recorder whose write stream emitted an
\* error; lost: the Recorders whose last line did not reach the disk
Up == [state |-> "up", failed |-> Null, lost |-> {}]

\* finalizeAll has not been called; activeAtCall is not in the code: it
\* notes the Recordings that are Active when finalizeAll is called
NoRun ==
    [phase |-> "idle", exitCode |-> Null, stopReason |-> Null, results |-> << >>,
     activeAtCall |-> {}]

\* the defaults of the Recorder constructor and of the RecordingManager
DefaultIdleTimeLimit == 2
DefaultMaxDuration == 3600
DefaultInactivityTimeout == 600

OptionFields == {"mode", "idleTimeLimit", "maxDuration", "inactivityTimeout"}

\* a Partial<RecordingOptions> is a function on the fields it has; a
\* number field that is present can hold undefined
Undefined == -1

\* options?.field ?? value, for a number field
OrElse(options, field, value) ==
    IF field \in DOMAIN options /\ options[field] # Undefined
    THEN options[field] ELSE value

\* the defaultOptions of a RecordingManager constructed with options
RecordingManager(options) ==
    [mode              |-> IF "mode" \in DOMAIN options THEN options.mode ELSE "off",
     idleTimeLimit     |-> OrElse(options, "idleTimeLimit", DefaultIdleTimeLimit),
     maxDuration       |-> OrElse(options, "maxDuration", DefaultMaxDuration),
     inactivityTimeout |-> OrElse(options, "inactivityTimeout", DefaultInactivityTimeout)]

\* a TerminalManager constructed with options.record = record and no other
\* option: no session yet, no auto-recording; constructedWith is not in the
\* code: it notes the options the RecordingManager was constructed with;
\* nor is autoSkipped: it notes the state startAutoRecording found the CLI
\* recording in when it returned without starting one; session is Null also
\* when the last session has ended (getSession treats the two alike)
TerminalManager(record) ==
    [session |-> Null, record |-> record, inactivityTimeout |-> 0,
     autoRecordingId |-> Null, autoSkipped |-> Null,
     defaultOptions |-> RecordingManager([f \in {"mode"} |-> record]),
     constructedWith |-> [f \in {"mode"} |-> record]]

Init ==
    /\ now = 1
    /\ recorders = [id \in AllIds |-> Recorder("off", 0, 0, 0)]
    /\ created = {}
    /\ recordings = {}
    /\ files = [id \in AllIds |-> NoFiles]
    /\ inflight = {}
    /\ returned = {}
    /\ call = NoCall
    /\ finalizeAllRun = NoRun
    /\ process = Up
    /\ callbacks = << >>
    /\ terminal = TerminalManager("off")


\* ------------------------------------------------------- class Recorder

\* Buffer.byteLength of a line and its newline.  The JSON text of a line is
\* not modelled; its size is the payload's plus a fixed frame.
ByteLength(line) == Len(line.data) + 1

\* writeLine: the line goes to the write stream and is counted
writeLine(r, line) ==
    IF r.writeStream # Null
    THEN [r EXCEPT !.lines = Append(@, line),
                   !.bytesWritten = @ + ByteLength(line)]
    ELSE r

\* no cap: the idle time as it is
IdleTimeUncapped(r, idleTime) == idleTime

\* a cap that is applied also when idleTimeLimit is 0
IdleTimeCapped(r, idleTime) ==
    IF FLess(Seconds(r.idleTimeLimit), idleTime)
    THEN Seconds(r.idleTimeLimit)
    ELSE idleTime

\* the idle time getElapsedSeconds adds to adjustedElapsed
IdleTimeAdded(r, idleTime) ==
    IF r.idleTimeLimit > 0 /\ FLess(Seconds(r.idleTimeLimit), idleTime)
    THEN Seconds(r.idleTimeLimit)
    ELSE idleTime

\* a clock that takes the idle time for the elapsed time
getElapsedSecondsAssigned(r, t) ==
    [r EXCEPT !.lastEventTime = t,
              !.adjustedElapsed =
                  IF r.lastEventTime = 0 THEN Seconds(t - r.startTime)
                  ELSE IdleTimeAdded(r, Seconds(t - r.lastEventTime))]

\* a clock that caps the time between start and the first event too
getElapsedSecondsCapsFirst(r, t) ==
    IF r.lastEventTime = 0
    THEN [r EXCEPT !.lastEventTime = t,
                   !.adjustedElapsed = IdleTimeAdded(r, Seconds(t - r.startTime))]
    ELSE [r EXCEPT !.adjustedElapsed =
                       FAdd(@, IdleTimeAdded(r, Seconds(t - r.lastEventTime))),
                   !.lastEventTime = t]

\* getElapsedSeconds at time t: the Recorder after the call; the value
\* returned is its adjustedElapsed
getElapsedSeconds(r, t) ==
    IF r.lastEventTime = 0
    THEN [r EXCEPT !.lastEventTime = t,
                   !.adjustedElapsed = Seconds(t - r.startTime)]
    ELSE [r EXCEPT !.adjustedElapsed =
                       FAdd(@, IdleTimeAdded(r, Seconds(t - r.lastEventTime))),
                   !.lastEventTime = t]

\* a guard that looks at the write stream only
StreamOpened(r) == r.writeStream # Null

\* isActive
isActive(r) == r.writeStream # Null /\ ~r.finalized

\* the guard of start: a write stream exists
AlreadyStarted(r) == r.writeStream # Null

\* a guard that lets every call through
NeverFinalized(r) == FALSE

\* the guard of finalize and of _autoFinalize: the finalized flag
AlreadyFinalized(r) == r.finalized

\* what finalize throws when its guard holds
AlreadyFinalizedError == "Error: Recording already finalized"

\* what start throws when its guard holds
AlreadyStartedError == "Error: Recording already started"

\* a start that arms the inactivity timer only
TimersOfStartNoMax(r, t) ==
    [r EXCEPT !.inactivityTimer =
                  IF r.inactivityTimeout > 0 THEN Timer(t + r.inactivityTimeout) ELSE @]

\* a start that arms both timers whatever the options are
TimersOfStartAlways(r, t) ==
    [r EXCEPT !.maxDurationTimer = Timer(t + r.maxDuration),
              !.inactivityTimer = Timer(t + r.inactivityTimeout)]

\* the timers start arms
TimersOfStart(r, t) ==
    [r EXCEPT !.maxDurationTimer =
                  IF r.maxDuration > 0 THEN Timer(t + r.maxDuration) ELSE @,
              !.inactivityTimer =
                  IF r.inactivityTimeout > 0 THEN Timer(t + r.inactivityTimeout) ELSE @]

\* a start whose header goes to the stream without being counted
StartedHeaderUncounted(r, t, size) ==
    TimersOfStart(
        [r EXCEPT !.startTime = t, !.writeStream = "open",
                  !.lines = Append(@, [kind |-> "header", t |-> FZero, data |-> "",
                                       size |-> size, at |-> t])],
        t)

\* the body of start past its guard
Started(r, t, size) ==
    TimersOfStart(
        writeLine([r EXCEPT !.startTime = t, !.writeStream = "open"],
                  [kind |-> "header", t |-> FZero, data |-> "", size |-> size,
                   at |-> t]),
        t)

\* a resize payload with the rows before the columns
ResizeDataRowsFirst(size) == ToString(size[2]) \o "x" \o ToString(size[1])

\* the payload of a resize event: `${cols}x${rows}`
ResizeData(size) == ToString(size[1]) \o "x" \o ToString(size[2])

\* an output that leaves the inactivity timer as it is
NoInactivityReset(r, t) == r

\* recordOutput re-arms the inactivity timer
InactivityReset(r, t) ==
    IF r.inactivityTimeout > 0 /\ r.inactivityTimer.set
    THEN [r EXCEPT !.inactivityTimer = Timer(t + r.inactivityTimeout)]
    ELSE r

\* the line of an event stamped with the Recorder's adjustedElapsed; `at`
\* is not in the file: it notes the clock when the line was written
Event(r, kind, data) ==
    [kind |-> kind, t |-> r.adjustedElapsed, data |-> data, size |-> << >>,
     at |-> r.lastEventTime]

\* the body of recordOutput past its guard
OutputRecorded(r, t, data) ==
    LET r1 == getElapsedSeconds(InactivityReset(r, t), t)
    IN  writeLine(r1, Event(r1, "o", data))

\* the body of recordResize past its guard
ResizeRecorded(r, t, size) ==
    LET r1 == getElapsedSeconds(r, t)
    IN  writeLine(r1, Event(r1, "r", ResizeData(size)))

\* clearTimers
clearTimers(r) ==
    [r EXCEPT !.maxDurationTimer = NoTimer, !.inactivityTimer = NoTimer]

\* a finalize that leaves the flag for the end, after the commit
FinalizeBegunUnlatched(r) ==
    LET r1 == clearTimers([r EXCEPT !.finalizeRuns = @ + 1])
    IN  IF r1.writeStream # Null THEN [r1 EXCEPT !.writeStream = "ended"] ELSE r1

\* finalize up to its await: the flag, the timers, the end of the stream;
\* finalizeRuns counts how often this body has run
FinalizeBegun(r) ==
    LET r1 == clearTimers([r EXCEPT !.finalized = TRUE, !.finalizeRuns = @ + 1])
    IN  IF r1.writeStream # Null THEN [r1 EXCEPT !.writeStream = "ended"] ELSE r1

\* a policy that takes an unknown exit code for a failure
shouldSaveUnknownExit(mode, exitCode) ==
    \/ mode = "always"
    \/ (mode = "on-failure" /\ exitCode # "0")

\* shouldSave
shouldSave(mode, exitCode) ==
    \/ mode = "always"
    \/ (mode = "on-failure" /\ exitCode # "0" /\ exitCode # Null)

\* the RecordingMetadata finalize returns
Metadata(id, r, f, saved) ==
    [ id           |-> id,
      path         |-> IF saved THEN "finalPath" ELSE "",
      startTime    |-> r.startTime,
      endTime      |-> f.endTime,
      durationMs   |-> f.endTime - r.startTime,
      bytesWritten |-> r.bytesWritten,
      exitCode     |-> f.exitCode,
      mode         |-> r.mode,
      saved        |-> saved,
      stopReason   |-> f.stopReason ]


\* ------------------------------------------------------------- the clock

Timers(r) == {r.maxDurationTimer, r.inactivityTimer}

\* a timer whose delay has run out and whose callback has not run yet
Due(tm) == tm.armed /\ tm.at <= now

\* Time passes while some write stream is open.  A due timer's callback and
\* the close of an ended stream come before the next tick.  Past MaxNow the
\* clock runs on only towards the timers still armed.
Tick ==
    /\ \E id \in created : recorders[id].writeStream = "open"
    /\ \A id \in created : \A tm \in Timers(recorders[id]) : ~Due(tm)
    /\ inflight = {}
    /\ \/ now < MaxNow
       \/ \E id \in created : \E tm \in Timers(recorders[id]) : tm.armed
    /\ now' = now + 1
    /\ UNCHANGED <<recorders, created, recordings, files, inflight, returned, call,
                   finalizeAllRun, process, terminal, callbacks>>

\* ------------------------------------------------------------ operations

\* RecordingManager.createRecording in a session that has the ids of pool;
\* generateId returns the next fresh id
createRecordingFrom(pool, options) ==
    /\ pool \ created # {}
    /\ LET id == First(pool \ created)
       IN  /\ recorders' = [recorders EXCEPT ![id] =
                 Recorder(options.mode, options.idleTimeLimit, options.maxDuration,
                          options.inactivityTimeout)]
           /\ created' = created \cup {id}
           /\ recordings' = recordings \cup {id}
           /\ call' = [op |-> "createRecording", id |-> id, result |-> "ok"]
    /\ UNCHANGED <<now, files, inflight, returned, finalizeAllRun, process, terminal, callbacks>>

\* RecordingManager.createRecording
createRecording(options) == createRecordingFrom(Ids, options)

\* a merge in which the defaults of the manager win over the options
DefaultsOverOptions(defaults, options) ==
    [f \in OptionFields |-> defaults[f]]

\* { ...this.defaultOptions, ...options }: every field the options have
\* replaces the default, whatever it holds
mergedOptions(defaults, options) ==
    [f \in OptionFields |-> IF f \in DOMAIN options THEN options[f] ELSE defaults[f]]

\* the Recorder constructor's default parameters stand in for undefined
RecorderArguments(merged) ==
    [mode              |-> merged.mode,
     idleTimeLimit     |-> IF merged.idleTimeLimit = Undefined
                           THEN DefaultIdleTimeLimit ELSE merged.idleTimeLimit,
     maxDuration       |-> IF merged.maxDuration = Undefined
                           THEN DefaultMaxDuration ELSE merged.maxDuration,
     inactivityTimeout |-> IF merged.inactivityTimeout = Undefined
                           THEN DefaultInactivityTimeout ELSE merged.inactivityTimeout]

\* RecordingManager.createRecording with options that leave fields out
createRecordingPartial(options) ==
    createRecording(RecorderArguments(mergedOptions(terminal.defaultOptions, options)))

\* a start that opens no file
TempNotCreated(fs) == fs

\* start's createWriteStream with the flag w: the temp file exists
TempCreated(fs) == [fs EXCEPT !.temp = TRUE]

\* Recorder.start
start(id, size) ==
    /\ id \in created
    /\ now <= MaxNow
    /\ IF AlreadyStarted(recorders[id])
       THEN /\ call' = [op |-> "start", id |-> id,
                        result |-> AlreadyStartedError]
            /\ UNCHANGED <<recorders, files>>
       ELSE /\ recorders' = [recorders EXCEPT ![id] = Started(@, now, size)]
            /\ files' = [files EXCEPT ![id] = TempCreated(@)]
            /\ call' = [op |-> "start", id |-> id, result |-> "ok"]
    /\ UNCHANGED <<now, created, recordings, inflight, returned, finalizeAllRun, process, terminal, callbacks>>

\* events appended so far
Events(r) == IF r.lines = << >> THEN << >> ELSE Tail(r.lines)

\* Recorder.recordOutput
recordOutput(id, data) ==
    /\ id \in created
    /\ IF ~isActive(recorders[id])
       THEN UNCHANGED recorders
       ELSE /\ Len(Events(recorders[id])) < MaxEvents
            /\ recorders' = [recorders EXCEPT ![id] = OutputRecorded(@, now, data)]
    /\ UNCHANGED <<now, created, recordings, files, inflight, returned, call,
                   finalizeAllRun, process, terminal, callbacks>>

\* Recorder.recordResize
recordResize(id, size) ==
    /\ id \in created
    /\ IF ~isActive(recorders[id])
       THEN UNCHANGED recorders
       ELSE /\ Len(Events(recorders[id])) < MaxEvents
            /\ recorders' = [recorders EXCEPT ![id] = ResizeRecorded(@, now, size)]
    /\ UNCHANGED <<now, created, recordings, files, inflight, returned, call,
                   finalizeAllRun, process, terminal, callbacks>>

\* every registered Recorder, whatever its state
AllRegistered == recordings

\* RecordingManager.getActiveRecordings
getActiveRecordings == {id \in recordings : isActive(recorders[id])}

\* RecordingManager.recordOutputToAll
recordOutputToAll(data) ==
    /\ \A id \in getActiveRecordings : Len(Events(recorders[id])) < MaxEvents
    /\ recorders' = [id \in AllIds |->
                        IF id \in getActiveRecordings
                        THEN OutputRecorded(recorders[id], now, data)
                        ELSE recorders[id]]
    /\ UNCHANGED <<now, created, recordings, files, inflight, returned, call,
                   finalizeAllRun, process, terminal, callbacks>>

\* RecordingManager.recordResizeToAll
recordResizeToAll(size) ==
    /\ \A id \in getActiveRecordings : Len(Events(recorders[id])) < MaxEvents
    /\ recorders' = [id \in AllIds |->
                        IF id \in getActiveRecordings
                        THEN ResizeRecorded(recorders[id], now, size)
                        ELSE recorders[id]]
    /\ UNCHANGED <<now, created, recordings, files, inflight, returned, call,
                   finalizeAllRun, process, terminal, callbacks>>

\* the lines of a Recorder that were written at the present tick
WrittenNow(r) == {i \in 1..Len(r.lines) : r.lines[i].at = now}

\* A write of writeLine fails (the disk is full, the file system reports an
\* error).  write does not throw: the stream emits 'error' later, nothing
\* listens, and the event becomes an uncaught exception that ends the
\* process.  The writes other streams queued in the same tick may or may
\* not have reached the disk by then.
writeError(id) ==
    /\ process.state = "up"
    /\ id \in created
    /\ recorders[id].writeStream = "open"
    /\ WrittenNow(recorders[id]) # {}
    /\ \E lost \in SUBSET {b \in created \ {id} :
                           /\ recorders[b].writeStream = "open"
                           /\ WrittenNow(recorders[b]) # {}} :
           process' = [state |-> "down", failed |-> id, lost |-> lost]
    /\ UNCHANGED <<now, recorders, created, recordings, files, inflight, returned,
                   call, finalizeAllRun, callbacks, terminal>>

\* a commit that writes no side-file
CommittedWithoutSideFile(id, r, f, fs, fault) ==
    IF shouldSave(r.mode, f.exitCode) /\ fs.temp
    THEN [files    |-> [temp |-> FALSE, final |-> TRUE, meta |-> FALSE],
          returned |-> {Metadata(id, r, f, TRUE)},
          result   |-> "saved",
          renameFailed |-> FALSE]
    ELSE [files    |-> [fs EXCEPT !.temp = FALSE],
          returned |-> {Metadata(id, r, f, FALSE)},
          result   |-> "discarded",
          renameFailed |-> FALSE]

\* a commit whose discard does not catch the error of deleting a temp file
\* that is not there
CommittedUnlinkUncaught(id, r, f, fs, fault) ==
    IF shouldSave(r.mode, f.exitCode)
    THEN IF ~fs.temp
         THEN [files    |-> fs,
               returned |-> {},
               result   |-> "Error: ENOENT",
               renameFailed |-> TRUE]
         ELSE [files    |-> [temp |-> FALSE, final |-> TRUE, meta |-> TRUE],
               returned |-> {Metadata(id, r, f, TRUE)},
               result   |-> "saved",
               renameFailed |-> fault = "rename"]
    ELSE IF ~fs.temp
    THEN [files    |-> fs,
          returned |-> {},
          result   |-> "Error: ENOENT",
          renameFailed |-> FALSE]
    ELSE [files    |-> [fs EXCEPT !.temp = FALSE],
          returned |-> {Metadata(id, r, f, FALSE)},
          result   |-> "discarded",
          renameFailed |-> FALSE]

\* what the file system does to a commit: nothing, a rename that fails
\* (another device) and is made good by the copy, and the failures finalize
\* does not catch: of the copy after a failed rename, of the delete of the
\* temp file after that copy, of the write of the side-file
CommitFaults == {"none", "rename"}

AllFaults == CommitFaults \cup {"copy", "unlink", "meta"}

\* finalize past the close of the stream: the file operations and the value
\* returned.  f is the call: its exitCode, stopReason and endTime.  The rename
\* may fail (another device); the copy that follows needs the temp file too.
\* renameFailed is not in the code: it notes that renameSync threw and the
\* catch block ran.
Committed(id, r, f, fs, fault) ==
    IF shouldSave(r.mode, f.exitCode)
    THEN IF ~fs.temp
         THEN [files    |-> fs,
               returned |-> {},
               result   |-> "Error: ENOENT",
               renameFailed |-> TRUE]
         ELSE IF fault = "copy"
         THEN [files    |-> fs,
               returned |-> {},
               result   |-> "Error: copyFileSync",
               renameFailed |-> TRUE]
         ELSE IF fault = "unlink"
         THEN [files    |-> [temp |-> TRUE, final |-> TRUE, meta |-> FALSE],
               returned |-> {},
               result   |-> "Error: unlinkSync",
               renameFailed |-> TRUE]
         ELSE IF fault = "meta"
         THEN [files    |-> [temp |-> FALSE, final |-> TRUE, meta |-> FALSE],
               returned |-> {},
               result   |-> "Error: writeFileSync",
               renameFailed |-> FALSE]
         ELSE [files    |-> [temp |-> FALSE, final |-> TRUE, meta |-> TRUE],
               returned |-> {Metadata(id, r, f, TRUE)},
               result   |-> "saved",
               renameFailed |-> fault = "rename"]
    ELSE [files    |-> [fs EXCEPT !.temp = FALSE],
          returned |-> {Metadata(id, r, f, FALSE)},
          result   |-> "discarded",
          renameFailed |-> FALSE]

\* finalize's stopReason ?? this.stopReason, with no reason written as Null
\* in place of the field
StopReasonGiven(r, stopReason) == stopReason

\* finalize's stopReason ?? this.stopReason
finalStopReason(r, stopReason) ==
    IF stopReason = Null THEN r.stopReason ELSE stopReason

\* the call of Recorder.finalize that owner makes at this moment
Finalizing(owner, id, r, exitCode, stopReason) ==
    [id         |-> id,
     exitCode   |-> exitCode,
     stopReason |-> finalStopReason(r, stopReason),
     endTime    |-> now,
     owner      |-> owner]

\* a call of Recorder.finalize by owner: the caller itself, the manager's
\* finalizeRecording or a timer's _autoFinalize
FinalizeCall(op, owner, id, exitCode, stopReason, fault) ==
    LET r  == recorders[id]
        r1 == FinalizeBegun(r)
        f  == Finalizing(owner, id, r, exitCode, stopReason)
        c  == Committed(id, r1, f, files[id], fault)
    IN  IF AlreadyFinalized(r)
        THEN /\ call' = [op |-> op, id |-> id, result |-> AlreadyFinalizedError]
             /\ UNCHANGED <<recorders, recordings, files, inflight, returned>>
        ELSE /\ recorders' = [recorders EXCEPT ![id] = r1]
             /\ IF r.writeStream # Null
                THEN /\ inflight' = inflight \cup {f}
                     /\ call' = [op |-> op, id |-> id, result |-> "pending"]
                     /\ UNCHANGED <<recordings, files, returned>>
                ELSE /\ files' = [files EXCEPT ![id] = c.files]
                     /\ returned' = returned \cup c.returned
                     /\ recordings' = IF owner = "manager" /\ c.returned # {}
                                      THEN recordings \ {id} ELSE recordings
                     /\ call' = [op |-> op, id |-> id, result |-> c.result,
                                  renameFailed |-> c.renameFailed]
                     /\ UNCHANGED inflight

\* Recorder.finalize, called on the Recorder
finalize(id, exitCode, stopReason) ==
    /\ id \in created
    /\ \E fault \in CommitFaults :
           FinalizeCall("finalize", "caller", id, exitCode, stopReason, fault)
    /\ UNCHANGED <<now, created, finalizeAllRun, process, terminal, callbacks>>

\* RecordingManager.finalizeRecording
finalizeRecording(id, exitCode, stopReason) ==
    /\ id \in created
    /\ IF id \notin recordings
       THEN /\ call' = [op |-> "finalizeRecording", id |-> id, result |-> "undefined"]
            /\ UNCHANGED <<recorders, recordings, files, inflight, returned>>
       ELSE \E fault \in CommitFaults :
                FinalizeCall("finalizeRecording", "manager", id, exitCode, stopReason,
                             fault)
    /\ UNCHANGED <<now, created, finalizeAllRun, process, terminal, callbacks>>

\* a loop that awaits the finalize of every entry, active or not
SweepEvery(reg, recs) ==
    IF reg = {}
    THEN [recordings |-> {}, awaiting |-> Null]
    ELSE [recordings |-> reg, awaiting |-> First(reg)]

\* finalizeAll's loop over the registry from its next entry on: entries that
\* are not active are deleted, and the loop stops at the first active one,
\* whose finalize it awaits.  The Map is iterated in insertion order, which
\* is the order of the ids.
RECURSIVE Sweep(_, _)
Sweep(reg, recs) ==
    IF reg = {}
    THEN [recordings |-> {}, awaiting |-> Null]
    ELSE LET id == First(reg)
         IN  IF isActive(recs[id])
             THEN [recordings |-> reg, awaiting |-> id]
             ELSE Sweep(reg \ {id}, recs)

\* finalizeAll runs from the registry reg with the results it has so far,
\* until it awaits a finalize or returns
FinalizeAllRuns(reg, run) ==
    LET sw == Sweep(reg, recorders)
        id == sw.awaiting
        f  == Finalizing("finalizeAll", id, recorders[id], run.exitCode, run.stopReason)
    IN  /\ recordings' = sw.recordings
        /\ IF id = Null
           THEN /\ finalizeAllRun' = [run EXCEPT !.phase = "resolved"]
                /\ recorders' = recorders
                /\ inflight' = {g \in inflight : g.owner # "finalizeAll"}
           ELSE /\ finalizeAllRun' = [run EXCEPT !.phase = "awaiting"]
                /\ recorders' = [recorders EXCEPT ![id] = FinalizeBegun(@)]
                /\ inflight' = {g \in inflight : g.owner # "finalizeAll"} \cup {f}

\* RecordingManager.finalizeAll, called once, when the session ends
finalizeAll(exitCode, stopReason) ==
    /\ finalizeAllRun.phase = "idle"
    /\ FinalizeAllRuns(recordings, [NoRun EXCEPT !.exitCode = exitCode,
                                                 !.stopReason = stopReason,
                                                 !.activeAtCall = getActiveRecordings])
    /\ call' = [op |-> "finalizeAll", id |-> "", result |-> "pending"]
    /\ UNCHANGED <<now, created, files, returned, process, terminal, callbacks>>

\* a continuation that notifies the callback whoever called finalize
NotifiedEveryOwner(r, f, c) ==
    IF r.onAutoFinalize THEN c.returned ELSE {}

\* the metadata _autoFinalize passes to the callback once its finalize has
\* returned: none if finalize threw, if no callback is registered, or if
\* the caller of finalize is not _autoFinalize
Notified(r, f, c) ==
    IF f.owner = "timer" /\ r.onAutoFinalize THEN c.returned ELSE {}

\* Recorder.setOnAutoFinalize
setOnAutoFinalize(id) ==
    /\ id \in created
    /\ recorders' = [recorders EXCEPT ![id].onAutoFinalize = TRUE]
    /\ UNCHANGED <<now, created, recordings, files, inflight, returned, call,
                   finalizeAllRun, process, terminal, callbacks>>

\* the write stream of a finalize call has closed: the rest of finalize runs
\* under one of these faults, and then the caller that awaits it
finalizeCommitUnder(faults, f) ==
    /\ f \in inflight
    /\ \E fault \in faults :
        LET c == Committed(f.id, recorders[f.id], f, files[f.id], fault)
        IN  /\ files' = [files EXCEPT ![f.id] = c.files]
            /\ returned' = returned \cup c.returned
            /\ call' = [op |-> "finalizeCommit", id |-> f.id, result |-> c.result,
                         renameFailed |-> c.renameFailed]
            /\ callbacks' = LET n == Notified(recorders[f.id], f, c)
                            IN  IF n = {} THEN callbacks
                                ELSE Append(callbacks, CHOOSE m \in n : TRUE)
            /\ IF f.owner = "finalizeAll"
               THEN IF c.returned = {}
                    THEN /\ finalizeAllRun' = [finalizeAllRun EXCEPT !.phase = "rejected"]
                         /\ inflight' = inflight \ {f}
                         /\ UNCHANGED <<recorders, recordings>>
                    ELSE FinalizeAllRuns(recordings \ {f.id},
                             [finalizeAllRun EXCEPT !.results =
                                  @ \o <<CHOOSE m \in c.returned : TRUE>>])
               ELSE /\ recordings' = IF f.owner = "manager" /\ c.returned # {}
                                     THEN recordings \ {f.id} ELSE recordings
                    /\ inflight' = inflight \ {f}
                    /\ UNCHANGED <<recorders, finalizeAllRun>>
    /\ UNCHANGED <<now, created, process, terminal>>

\* the rest of finalize where the file system lets every commit succeed
finalizeCommit(f) == finalizeCommitUnder(CommitFaults, f)

\* Recorder._autoFinalize, run by a timer that is due
autoFinalize(id, reason) ==
    LET r == recorders[id]
        spent == IF reason = "max_duration"
                 THEN [r EXCEPT !.maxDurationTimer.armed = FALSE]
                 ELSE [r EXCEPT !.inactivityTimer.armed = FALSE]
    IN  /\ id \in created
        /\ Due(IF reason = "max_duration" THEN r.maxDurationTimer ELSE r.inactivityTimer)
        /\ IF AlreadyFinalized(r)
           THEN /\ recorders' = [recorders EXCEPT ![id] = spent]
                /\ UNCHANGED <<recordings, files, inflight, returned>>
           ELSE /\ recorders' = [recorders EXCEPT ![id] =
                       FinalizeBegun([spent EXCEPT !.stopReason = reason])]
                /\ inflight' = inflight \cup
                       {[id |-> id, exitCode |-> Null, stopReason |-> reason,
                         endTime |-> now, owner |-> "timer"]}
                /\ UNCHANGED <<recordings, files, returned>>
        /\ UNCHANGED <<now, created, call, finalizeAllRun, process, terminal, callbacks>>

\* the arguments <<exitCode, stopReason>> of finalize: exit code unknown
\* and no reason given, or a failure with finalizeAll's reason
FinalizeArgs == {<<Null, Null>>, <<"7", "session_exit">>}

\* the arguments of finalizeAll: the exit code of a session that failed, and
\* the default of stopReason
FinalizeAllArgs == {<<"7", "session_exit">>}

\* the arguments of finalizeRecording: the stopRecording tool's
FinalizeRecordingArgs == {<<"0", "explicit">>}

Next ==
    \/ Tick
    \/ \E options \in Options : createRecording(options)
    \/ \E id \in Ids, size \in Sizes : start(id, size)
    \/ \E id \in Ids, data \in Data : recordOutput(id, data)
    \/ \E id \in Ids, size \in Sizes : recordResize(id, size)
    \/ \E id \in Ids, a \in FinalizeArgs : finalize(id, a[1], a[2])
    \/ \E id \in Ids, a \in FinalizeRecordingArgs : finalizeRecording(id, a[1], a[2])
    \/ \E f \in inflight : finalizeCommit(f)
    \/ \E id \in Ids : autoFinalize(id, "max_duration")
    \/ \E id \in Ids : autoFinalize(id, "inactivity")

Spec == Init /\ [][Next]_vars

\* The event loop: time passes, a timer that is due runs its callback, a
\* stream that was ended closes.
FairSpec ==
    /\ Spec
    /\ WF_vars(Tick)
    /\ WF_vars(\E id \in Ids : autoFinalize(id, "max_duration"))
    /\ WF_vars(\E id \in Ids : autoFinalize(id, "inactivity"))
    /\ WF_vars(\E f \in inflight : finalizeCommit(f))

\* the options of a session with two recordings, in the order in which they
\* are created: the first kept always with its idle time capped, the second
\* kept on failure with no cap and an inactivity timer of two ticks
FanOptions ==
    <<[mode |-> "always", idleTimeLimit |-> 1, maxDuration |-> 0, inactivityTimeout |-> 0],
      [mode |-> "on-failure", idleTimeLimit |-> 0, maxDuration |-> 0,
       inactivityTimeout |-> 2]>>

\* the last tick of the clock in a session with two recordings
FanMaxNow == 3

\* the recording that the stopRecording tool ends: the second one, which the
\* startRecording tool made; the first is the session's own and lasts
\* until finalizeAll or its timer
Stoppable == {IdOrder[2]}

\* A session with two recordings, which the manager feeds with the
\* session's events.
FanNext ==
    \/ Tick /\ now < FanMaxNow
    \/ \E i \in 1..Len(FanOptions) :
           /\ i = Cardinality(created) + 1
           /\ createRecordingFrom(AllIds, FanOptions[i])
    \/ \E id \in AllIds, size \in Sizes : start(id, size)
    \/ \E data \in Data : recordOutputToAll(data)
    \/ \E size \in Sizes : recordResizeToAll(size)
    \/ \E id \in Stoppable, a \in FinalizeRecordingArgs : finalizeRecording(id, a[1], a[2])
    \/ \E a \in FinalizeAllArgs : finalizeAll(a[1], a[2])
    \/ \E f \in inflight : finalizeCommit(f)
    \/ \E id \in AllIds : autoFinalize(id, "inactivity")

FanSpec == Init /\ [][FanNext]_vars

\* the options of a Recording that has a timer and an idle time limit
CallbackOptions ==
    {o \in Options : o.idleTimeLimit = 1 /\ (o.maxDuration > 0 \/ o.inactivityTimeout > 0)}

\* A session with one recording on which a callback can be registered and
\* which every kind of caller can end (finalize being called without a
\* reason), under the event loop: time passes, a timer that is due runs its callback, a
\* stream that was ended closes.
CallbackNext ==
    \/ Tick
    \/ \E options \in CallbackOptions : createRecording(options)
    \/ \E id \in Ids, size \in Sizes : start(id, size)
    \/ \E id \in Ids : setOnAutoFinalize(id)
    \/ \E id \in Ids, data \in Data : recordOutput(id, data)
    \/ \E id \in Ids : finalize(id, Null, Null)
    \/ \E id \in Ids, a \in FinalizeRecordingArgs : finalizeRecording(id, a[1], a[2])
    \/ \E a \in FinalizeAllArgs : finalizeAll(a[1], a[2])
    \/ \E f \in inflight : finalizeCommit(f)
    \/ \E id \in Ids : autoFinalize(id, "max_duration")
    \/ \E id \in Ids : autoFinalize(id, "inactivity")

CallbackSpec ==
    /\ Init
    /\ [][CallbackNext]_vars
    /\ WF_vars(Tick)
    /\ WF_vars(\E id \in Ids : autoFinalize(id, "max_duration"))
    /\ WF_vars(\E id \in Ids : autoFinalize(id, "inactivity"))
    /\ WF_vars(\E f \in inflight : finalizeCommit(f))

\* while the process is up
Running == process.state = "up"

\* A session with two recordings in which a write or a commit can fail.
FaultNext ==
    \/ Running /\ Tick /\ now < FanMaxNow
    \/ \E i \in 1..Len(FanOptions) :
           /\ Running
           /\ i = Cardinality(created) + 1
           /\ createRecordingFrom(AllIds, FanOptions[i])
    \/ \E id \in AllIds, size \in Sizes : Running /\ start(id, size)
    \/ \E data \in Data : Running /\ recordOutputToAll(data)
    \/ \E size \in Sizes : Running /\ recordResizeToAll(size)
    \/ \E id \in AllIds : writeError(id)
    \/ \E a \in FinalizeAllArgs : Running /\ finalizeAll(a[1], a[2])
    \/ \E f \in inflight : Running /\ finalizeCommitUnder(AllFaults, f)
    \/ \E id \in AllIds : Running /\ autoFinalize(id, "inactivity")

FaultSpec == Init /\ [][FaultNext]_vars

\* ------------------------------------- one Recording, a failing disk

\* the options of a Recording that is saved whatever the exit code, or on
\* the failure of the session; no timers
SavingOptions ==
    [mode : {"always", "on-failure"}, idleTimeLimit : {0}, maxDuration : {0},
     inactivityTimeout : {0}]

\* one Recording that callers create, start, feed and finalize, on a file
\* system that can fail every operation of the commit
CommitFaultNext ==
    \/ Tick /\ now < FanMaxNow
    \/ \E options \in SavingOptions : createRecording(options)
    \/ \E id \in Ids, size \in Sizes : start(id, size)
    \/ \E id \in Ids, data \in Data : recordOutput(id, data)
    \/ \E id \in Ids, a \in FinalizeArgs : finalize(id, a[1], a[2])
    \/ \E id \in Ids, a \in FinalizeRecordingArgs : finalizeRecording(id, a[1], a[2])
    \/ \E f \in inflight : finalizeCommitUnder(AllFaults, f)

CommitFaultSpec == Init /\ [][CommitFaultNext]_vars

\* ------------------------------------------- TerminalManager and tools

\* the --record option of the sessions considered: no CLI recording, or one
CliModes == {"off", "always"}

\* the options of the CLI recording: --idle-time-limit=0 --max-duration=0
\* and the session's --inactivity-timeout
AutoOptions(options) ==
    [mode |-> options.record, idleTimeLimit |-> 0, maxDuration |-> 0,
     inactivityTimeout |-> options.inactivityTimeout]

\* startAutoRecording without its test of autoRecordingId
startAutoRecordingAgain(w, size) ==
    IF AllIds \ w.created = {}
    THEN w
    ELSE [w EXCEPT !.recorders[First(AllIds \ w.created)] =
                       Started(Recorder(w.terminal.record, 0, 0,
                                        w.terminal.inactivityTimeout), now, size),
                   !.files[First(AllIds \ w.created)] = TempCreated(@),
                   !.created = @ \cup {First(AllIds \ w.created)},
                   !.recordings = @ \cup {First(AllIds \ w.created)},
                   !.terminal.autoRecordingId = First(AllIds \ w.created)]

\* the parsed arguments of the startRecording calls considered: a recording
\* in mode on-failure that stops after two ticks without output
ToolOptions ==
    {[mode |-> "on-failure", idleTimeLimit |-> 0, maxDuration |-> 0,
      inactivityTimeout |-> 2]}

\* what createRecording, start and getSession read and write
World ==
    [recorders |-> recorders, created |-> created, recordings |-> recordings,
     files |-> files, terminal |-> terminal]

Becomes(w) ==
    /\ recorders' = w.recorders
    /\ created' = w.created
    /\ recordings' = w.recordings
    /\ files' = w.files
    /\ terminal' = w.terminal

\* the id createRecording generates next
NextId(w) == First(AllIds \ w.created)

\* createRecording(options) followed by start on the Recorder it returned
CreatedAndStarted(w, options, size) ==
    LET id == NextId(w)
    IN  [w EXCEPT !.recorders[id] =
                      Started(Recorder(options.mode, options.idleTimeLimit,
                                       options.maxDuration, options.inactivityTimeout),
                              now, size),
                  !.files[id] = TempCreated(@),
                  !.created = @ \cup {id},
                  !.recordings = @ \cup {id}]

\* createRecording(options) alone
CreatedIn(w, options) ==
    LET id == NextId(w)
    IN  [w EXCEPT !.recorders[id] =
                      Recorder(options.mode, options.idleTimeLimit,
                               options.maxDuration, options.inactivityTimeout),
                  !.created = @ \cup {id},
                  !.recordings = @ \cup {id}]

\* start on a Recorder that has no write stream
StartedIn(w, id, size) ==
    [w EXCEPT !.recorders[id] = Started(@, now, size),
              !.files[id] = TempCreated(@)]

\* TerminalManager.startAutoRecording
startAutoRecording(w, size) ==
    IF w.terminal.autoRecordingId # Null
    THEN [w EXCEPT !.terminal.autoSkipped =
                       IF w.recorders[w.terminal.autoRecordingId].finalized
                       THEN "Finalized" ELSE "Active"]
    ELSE [CreatedAndStarted(w, AutoOptions(w.terminal), size)
              EXCEPT !.terminal.autoRecordingId = NextId(w)]

\* TerminalManager.getSession: the session is created at the first call,
\* and with it the CLI recording if --record is not off
SessionGot(w, size) ==
    IF w.terminal.session # Null
    THEN w
    ELSE LET w1 == [w EXCEPT !.terminal.session = "active"]
         IN  IF w.terminal.record # "off" THEN startAutoRecording(w1, size) ELSE w1

\* ids createRecording can still generate within the bound
FreeIds(w) == AllIds \ w.created

\* getSession, called at start-up or by a tool that reads or writes the
\* terminal
getSession ==
    /\ terminal.session = Null
    /\ now <= MaxNow
    /\ \E size \in Sizes : Becomes(SessionGot(World, size))
    /\ UNCHANGED <<now, inflight, returned, call, finalizeAllRun, process, callbacks>>

InProgressError == "A recording is already in progress"

\* handleStartRecording
handleStartRecording(options) ==
    /\ now <= MaxNow
    /\ IF getActiveRecordings # {}
       THEN /\ call' = [op |-> "startRecording", id |-> First(getActiveRecordings),
                        result |-> InProgressError]
            /\ UNCHANGED <<recorders, created, recordings, files, terminal>>
       ELSE /\ FreeIds(World) # {}
            /\ LET w1 == CreatedIn(World, options)
                   id == NextId(World)
               IN  /\ (/\ terminal.session = Null
                        /\ terminal.record # "off"
                        /\ terminal.autoRecordingId = Null)
                          => FreeIds(w1) # {}
                   /\ \E size \in Sizes :
                          Becomes(StartedIn(SessionGot(w1, size), id, size))
                   /\ call' = [op |-> "startRecording", id |-> id, result |-> "ok"]
    /\ UNCHANGED <<now, inflight, returned, finalizeAllRun, process, callbacks>>

NotFoundError == "Error: Recording not found"

StopFinalizedError == "Error: Recording already finalized"

\* handleStopRecording up to its await
handleStopRecording(id) ==
    /\ IF id \notin recordings
       THEN /\ call' = [op |-> "stopRecording", id |-> id, result |-> NotFoundError]
            /\ UNCHANGED <<recorders, recordings, files, inflight, returned>>
       ELSE IF ~isActive(recorders[id])
       THEN /\ call' = [op |-> "stopRecording", id |-> id,
                        result |-> StopFinalizedError]
            /\ UNCHANGED <<recorders, recordings, files, inflight, returned>>
       ELSE \E fault \in CommitFaults :
                FinalizeCall("stopRecording", "manager", id, "0", "explicit", fault)
    /\ UNCHANGED <<now, created, finalizeAllRun, process, callbacks, terminal>>

\* the session's onData and onResize hooks, the tools, the timers and the
\* end of the session
ToolNext ==
    \/ Tick /\ now < FanMaxNow
    \/ getSession
    \/ \E options \in ToolOptions : handleStartRecording(options)
    \/ \E id \in AllIds : handleStopRecording(id)
    \/ \E data \in Data : terminal.session # Null /\ recordOutputToAll(data)
    \/ \E size \in Sizes : terminal.session # Null /\ recordResizeToAll(size)
    \/ \E a \in FinalizeAllArgs : terminal.session # Null /\ finalizeAll(a[1], a[2])
    \/ \E f \in inflight : finalizeCommit(f)
    \/ \E id \in AllIds : autoFinalize(id, "inactivity")

ToolInit ==
    /\ now = 1
    /\ recorders = [id \in AllIds |-> Recorder("off", 0, 0, 0)]
    /\ created = {}
    /\ recordings = {}
    /\ files = [id \in AllIds |-> NoFiles]
    /\ inflight = {}
    /\ returned = {}
    /\ call = NoCall
    /\ finalizeAllRun = NoRun
    /\ process = Up
    /\ callbacks = << >>
    /\ \E record \in CliModes : terminal = TerminalManager(record)

ToolSpec == ToolInit /\ [][ToolNext]_vars

\* ------------------------------------------- one session after another

\* TerminalManager.dispose
dispose ==
    /\ terminal.session # Null
    /\ terminal' = [terminal EXCEPT !.session = Null]
    /\ UNCHANGED <<now, recorders, created, recordings, files, inflight, returned,
                   call, finalizeAllRun, process, callbacks>>

\* terminal-mcp --record --inactivity-timeout: the CLI recording stops
\* after two ticks without output
SessionInit ==
    /\ now = 1
    /\ recorders = [id \in AllIds |-> Recorder("off", 0, 0, 0)]
    /\ created = {}
    /\ recordings = {}
    /\ files = [id \in AllIds |-> NoFiles]
    /\ inflight = {}
    /\ returned = {}
    /\ call = NoCall
    /\ finalizeAllRun = NoRun
    /\ process = Up
    /\ callbacks = << >>
    /\ terminal = [TerminalManager("always") EXCEPT !.inactivityTimeout = 2]

\* sessions that are created, end and are created again, with the tools,
\* the timers and finalizeAll at the end of a session
SessionNext ==
    \/ Tick /\ now < FanMaxNow
    \/ getSession
    \/ dispose
    \/ \E options \in ToolOptions : handleStartRecording(options)
    \/ \E data \in Data : terminal.session # Null /\ recordOutputToAll(data)
    \/ \E a \in FinalizeAllArgs : terminal.session # Null /\ finalizeAll(a[1], a[2])
    \/ \E f \in inflight : finalizeCommit(f)
    \/ \E id \in AllIds : autoFinalize(id, "inactivity")

SessionSpec == SessionInit /\ [][SessionNext]_vars

\* ------------------------------------------------- default options

\* the partial options with values from the given sets: any of the fields
\* can be left out
PartialOptions(modes, idles, maxs, inacts) ==
    {[f \in S |-> o[f]] :
        o \in [mode : modes, idleTimeLimit : idles, maxDuration : maxs,
               inactivityTimeout : inacts],
        S \in SUBSET OptionFields}

\* the options a RecordingManager is constructed with
ManagerOptions == PartialOptions({"always"}, {5}, {0}, {0})

\* the options createRecording is called with
CreateOptions == PartialOptions({"on-failure"}, {1, Undefined}, {7}, {9})

DefaultsInit ==
    /\ now = 1
    /\ recorders = [id \in AllIds |-> Recorder("off", 0, 0, 0)]
    /\ created = {}
    /\ recordings = {}
    /\ files = [id \in AllIds |-> NoFiles]
    /\ inflight = {}
    /\ returned = {}
    /\ call = NoCall
    /\ finalizeAllRun = NoRun
    /\ process = Up
    /\ callbacks = << >>
    /\ \E options \in ManagerOptions :
           terminal = [TerminalManager("off") EXCEPT
                           !.defaultOptions = RecordingManager(options),
                           !.constructedWith = options]

DefaultsNext == \E options \in CreateOptions : createRecordingPartial(options)

DefaultsSpec == DefaultsInit /\ [][DefaultsNext]_vars

\* ------------------------------------------------------- generateId

\* generateId: eight random bytes, any value, whatever the registry holds
generateId == AllIds

\* the options of the Recordings created here
IdOptions == {o \in Options : o.maxDuration = 0}

\* RecordingManager.createRecording with the id generateId returns:
\* recordings.set(id, recorder) adds the entry, or replaces the entry that
\* has this id
createRecordingAnyId(options) ==
    /\ \E id \in generateId :
           /\ recorders' = [recorders EXCEPT ![id] =
                 Recorder(options.mode, options.idleTimeLimit, options.maxDuration,
                          options.inactivityTimeout)]
           /\ created' = created \cup {id}
           /\ recordings' = recordings \cup {id}
           /\ call' = [op |-> "createRecording", id |-> id, result |-> "ok"]
    /\ UNCHANGED <<now, files, inflight, returned, finalizeAllRun, process, terminal,
                   callbacks>>

IdNext ==
    \/ \E options \in IdOptions : createRecordingAnyId(options)
    \/ \E id \in AllIds, size \in Sizes : start(id, size)

IdSpec == Init /\ [][IdNext]_vars

\* ---------------------------------------------------------------- claims

\* the finalize calls of a recording that wait for its stream or have returned
FinalizeResults(id) ==
    {f \in inflight : f.id = id} \cup {m \in returned : m.id = id}

\* C1: whatever the interleaving of explicit finalize calls and the two
\* timer callbacks, the body of finalize runs at most once for a Recording,
\* and at most one call closes its write target and commits or discards;
\* every other attempt is rejected or does nothing.
C1_SingleFinalization ==
    \A id \in created :
        /\ recorders[id].finalizeRuns <= 1
        /\ Cardinality(FinalizeResults(id)) <= 1
        /\ recorders[id].finalizeRuns = 0 => FinalizeResults(id) = {}

\* a timer has finalized the recording, its result is out, and an explicit
\* finalize that came later was rejected
C1_Witness ==
    \E id \in created :
        /\ recorders[id].finalizeRuns = 1
        /\ \E m \in returned : m.id = id /\ m.stopReason = "inactivity"
        /\ call = [op |-> "finalize", id |-> id, result |-> AlreadyFinalizedError]

\* C2: a call of finalize on a Recorder that is finalized already throws
\* "Recording already finalized" and changes nothing: not the Recorder's
\* fields, not the files, not the metadata the first call returned or will
\* return.
C2_SecondFinalizeRejected ==
    [][\A id \in created :
          (/\ recorders[id].finalized
           /\ call' # call
           /\ call'.op = "finalize"
           /\ call'.id = id)
          => /\ call'.result = AlreadyFinalizedError
             /\ UNCHANGED <<recorders, files, returned, inflight, recordings>>]_vars

\* a finalize call was rejected after an earlier one had returned its
\* metadata and saved the file
C2_Witness ==
    /\ call.op = "finalize"
    /\ call.result = AlreadyFinalizedError
    /\ \E m \in returned : m.id = call.id /\ m.saved /\ files[call.id].final

FLeq(x, y) == ~FLess(y, x)

\* the timestamps of the events in a log never decrease
Sorted(lines) ==
    \A i, j \in 2..Len(lines) : i < j => FLeq(lines[i].t, lines[j].t)

\* C5: the logical clock of a Recording never decreases; a step leaves its
\* log alone or appends one line at the end, an event line carrying the
\* clock's new value; so the timestamps in the log never decrease in append
\* order, whatever the order of outputs and resizes.
C5_MonotoneTimestamps ==
    [][\A id \in created :
          LET r  == recorders[id]
              r2 == recorders'[id]
              n  == Len(r.lines)
          IN  /\ FLeq(r.adjustedElapsed, r2.adjustedElapsed)
              /\ \/ r2.lines = r.lines
                 \/ /\ Len(r2.lines) = n + 1
                    /\ SubSeq(r2.lines, 1, n) = r.lines
                    /\ n >= 1 => /\ r2.lines[n + 1].t = r2.adjustedElapsed
                                 /\ r2.lines[n + 1].at = now
              /\ Sorted(r2.lines)]_vars

\* a log with an output and a resize, in either order, the second stamped
\* later than the first
C5_Witness ==
    \E id \in created :
        LET ev == Events(recorders[id])
        IN  /\ Len(ev) = 2
            /\ ev[1].kind # ev[2].kind
            /\ FLess(ev[1].t, ev[2].t)

FMin(x, y) == IF FLess(y, x) THEN y ELSE x

FMax(x, y) == IF FLess(x, y) THEN y ELSE x

\* the sum of x and y is itself a binary64 number: adding them rounds nothing
ExactSum(x, y) ==
    \/ x = FZero
    \/ y = FZero
    \/ LET e  == IF x.e < y.e THEN x.e ELSE y.e
           ax == x.m \o Zeros(x.e - e)
           ay == y.m \o Zeros(y.e - e)
           v  == StripZeros(BAddC(ax, ay, 0))
       IN  \A i \in (MantBits + 1)..Len(v) : v[i] = 0

\* a step appends an event to the log of r that is not its first event
LaterEvent(r, r2) == r.lastEventTime # 0 /\ Len(r2.lines) > Len(r.lines)

\* C6 (as stated): for every event after the first of a Recording with
\* idleTimeLimit L > 0 the timestamp advances by exactly min(idle, L): the
\* new timestamp minus the old one is min(idle, L).
C6_AdvanceIsExactlyMin ==
    [][\A id \in created :
          LET r    == recorders[id]
              r2   == recorders'[id]
              step == FMin(Seconds(now - r.lastEventTime), Seconds(r.idleTimeLimit))
          IN  (r.idleTimeLimit > 0 /\ LaterEvent(r, r2))
              => /\ r2.adjustedElapsed = FAdd(r.adjustedElapsed, step)
                 /\ ExactSum(r.adjustedElapsed, step)]_vars

\* C6 (amended): for every event after the first of a Recording with
\* idleTimeLimit L > 0 the new timestamp is the binary64 sum of the old one
\* and min(idle, L); it is not below the old timestamp and not above the
\* binary64 sum of the old one and max(L, idle).
C6_AdvanceIsMinRounded ==
    [][\A id \in created :
          LET r    == recorders[id]
              r2   == recorders'[id]
              idle == Seconds(now - r.lastEventTime)
              L    == Seconds(r.idleTimeLimit)
          IN  (r.idleTimeLimit > 0 /\ LaterEvent(r, r2))
              => /\ r2.adjustedElapsed = FAdd(r.adjustedElapsed, FMin(idle, L))
                 /\ r2.lines[Len(r2.lines)].t = r2.adjustedElapsed
                 /\ FLeq(r.adjustedElapsed, r2.adjustedElapsed)
                 /\ FLeq(r2.adjustedElapsed, FAdd(r.adjustedElapsed, FMax(idle, L)))]_vars

\* two events two ticks apart under a limit of one tick: the second is
\* stamped one tick after the first, and that sum had to be rounded
C6_Witness ==
    \E id \in created :
        LET r  == recorders[id]
            ev == Events(r)
        IN  /\ r.idleTimeLimit = 1
            /\ Len(ev) = 2
            /\ ev[2].at = ev[1].at + 2
            /\ ev[2].t = FAdd(ev[1].t, Seconds(1))
            /\ ~ExactSum(ev[1].t, Seconds(1))

\* C7 (as stated): with idleTimeLimit = 0 every event's timestamp equals the
\* wall-clock time elapsed between start and that event.
C7_TimestampIsElapsed ==
    \A id \in created :
        LET r == recorders[id]
        IN  r.idleTimeLimit = 0
            => \A i \in 2..Len(r.lines) :
                   r.lines[i].t = Seconds(r.lines[i].at - r.startTime)

\* C7 (amended): with idleTimeLimit = 0 the first event's timestamp equals
\* the time elapsed since start, and every later timestamp is the binary64
\* sum of the timestamp before it and the whole idle time since that event:
\* the elapsed time up to the rounding of these sums.
C7_TimestampIsSumOfGaps ==
    \A id \in created :
        LET r == recorders[id]
        IN  r.idleTimeLimit = 0
            => \A i \in 2..Len(r.lines) :
                   r.lines[i].t =
                       IF i = 2 THEN Seconds(r.lines[i].at - r.startTime)
                       ELSE FAdd(r.lines[i - 1].t,
                                 Seconds(r.lines[i].at - r.lines[i - 1].at))

\* events one and three ticks after start, no limit: the second timestamp
\* is the rounded sum of the gaps and differs from the elapsed time
C7_Witness ==
    \E id \in created :
        LET r  == recorders[id]
            ev == Events(r)
        IN  /\ r.idleTimeLimit = 0
            /\ Len(ev) = 2
            /\ ev[1].at = r.startTime + 1
            /\ ev[2].at = r.startTime + 3
            /\ ev[2].t = FAdd(Seconds(1), Seconds(2))
            /\ ev[2].t # Seconds(3)

Max(S) == CHOOSE x \in S : \A y \in S : y <= x

\* the clock at the latest output of a Recorder, at its start if it has none
LastOutputOrStart(r) ==
    Max({r.startTime} \cup {r.lines[i].at : i \in {j \in 2..Len(r.lines) : r.lines[j].kind = "o"}})

\* C8: with inactivityTimeout T > 0 the inactivity timer of an Active
\* Recording is always armed for T after its latest output (after start if
\* there was none), resizes notwithstanding; the clock does not pass that
\* deadline while the Recording is Active; and every finalization with
\* stopReason inactivity happens exactly T after the latest output.
C8_InactivityDeadline ==
    \A id \in created :
        LET r        == recorders[id]
            deadline == LastOutputOrStart(r) + r.inactivityTimeout
        IN  r.inactivityTimeout > 0
            => /\ isActive(r) => (r.inactivityTimer = Timer(deadline) /\ now <= deadline)
               /\ \A f \in FinalizeResults(id) :
                      f.stopReason = "inactivity" => f.endTime = deadline

\* T = 3 ticks, outputs 0 and 2 ticks after start and nothing after them:
\* the Recording was stopped for inactivity 5 ticks after start, not 3
C8_Witness ==
    \E id \in created :
        LET r == recorders[id]
        IN  /\ r.inactivityTimeout = 3
            /\ Len(r.lines) = 3
            /\ r.lines[2].kind = "o" /\ r.lines[2].at = r.startTime
            /\ r.lines[3].kind = "o" /\ r.lines[3].at = r.startTime + 2
            /\ \E m \in returned :
                   /\ m.id = id
                   /\ m.stopReason = "inactivity"
                   /\ m.endTime = r.startTime + 5

\* a resize 2 ticks after start did not move the deadline: stopped for
\* inactivity 3 ticks after start
C8_ResizeWitness ==
    \E id \in created :
        LET r == recorders[id]
        IN  /\ r.inactivityTimeout = 3
            /\ Len(r.lines) = 2
            /\ r.lines[2].kind = "r" /\ r.lines[2].at = r.startTime + 2
            /\ \E m \in returned :
                   m.id = id /\ m.stopReason = "inactivity" /\ m.endTime = r.startTime + 3

\* the max-duration timer of an Active Recording is armed for D after start
\* whatever events arrived, the clock does not pass that deadline while the
\* Recording is Active, and a finalization with stopReason max_duration
\* happens exactly D after start
MaxDurationDeadline ==
    \A id \in created :
        LET r        == recorders[id]
            deadline == r.startTime + r.maxDuration
        IN  r.maxDuration > 0
            => /\ isActive(r) => (r.maxDurationTimer = Timer(deadline) /\ now <= deadline)
               /\ \A f \in FinalizeResults(id) :
                      f.stopReason = "max_duration" => f.endTime = deadline

\* C9: a started Recording with maxDuration D > 0 is finalized no later
\* than D after start, by its max-duration timer with stopReason
\* max_duration if nothing finalized it before, however many outputs and
\* resizes arrive in between; every such Recording eventually is Finalized
\* and its finalize call returns.
C9_MaxDuration ==
    /\ []MaxDurationDeadline
    /\ \A id \in Ids :
           (id \in created /\ isActive(recorders[id]) /\ recorders[id].maxDuration > 0)
           ~> (recorders[id].finalized /\ \E m \in returned : m.id = id)

\* D = 4 ticks, no inactivity timeout, two events on the way: stopped by
\* the max-duration timer 4 ticks after start
C9_Witness ==
    \E id \in created :
        LET r == recorders[id]
        IN  /\ r.maxDuration = 4
            /\ r.inactivityTimeout = 0
            /\ Len(Events(r)) = 2
            /\ r.finalized
            /\ \E m \in returned :
                   /\ m.id = id
                   /\ m.stopReason = "max_duration"
                   /\ m.endTime = r.startTime + 4
                   /\ m.exitCode = Null

\* the lifecycle state of a Recorder
State(r) ==
    IF r.finalized THEN "Finalized"
    ELSE IF r.writeStream # Null THEN "Active"
    ELSE "Pending"

Rank(state) == CASE state = "Pending" -> 0 [] state = "Active" -> 1 [] OTHER -> 2

\* C3: a Recording's state only moves forward along Pending, Active,
\* Finalized; a write target is opened only for a Pending Recording; a start
\* on an Active or Finalized Recording fails with an error and changes
\* nothing; no step takes a Finalized Recording to another state, opens a
\* write target for it or arms a timer for it.
C3_Lifecycle ==
    [][\A id \in created :
          LET r  == recorders[id]
              r2 == recorders'[id]
          IN  /\ Rank(State(r)) <= Rank(State(r2))
              /\ (r.writeStream = Null /\ r2.writeStream # Null) => State(r) = "Pending"
              /\ (/\ State(r) # "Pending"
                  /\ call' # call
                  /\ call'.op = "start"
                  /\ call'.id = id)
                 => (call'.result = AlreadyStartedError /\ r2 = r)
              /\ State(r) = "Finalized"
                 => /\ State(r2) = "Finalized"
                    /\ r2.writeStream = "open" => r.writeStream = "open"
                    /\ r2.maxDurationTimer.armed => r.maxDurationTimer.armed
                    /\ r2.inactivityTimer.armed => r.inactivityTimer.armed]_vars

\* C10: in every reachable state a Finalized Recording has no armed
\* max-duration timer and no armed inactivity timer.
C10_NoTimerWhenFinalized ==
    \A id \in created :
        recorders[id].finalized => \A tm \in Timers(recorders[id]) : ~tm.armed

\* the timer of a Recorder that stops it for reason
TimerOf(r, reason) ==
    IF reason = "max_duration" THEN r.maxDurationTimer ELSE r.inactivityTimer

\* C11: the stopReason of a finalize call, and of the metadata it returns,
\* names what ended the recording: "explicit" for stopRecording and for a
\* finalize without a reason, "session_exit" for finalizeAll, and the
\* reason of a timer that was due, "max_duration" or "inactivity", for a
\* recording that its timer ended.
C11_StopReasonNamesCause ==
    [][/\ \A f \in inflight' \ inflight :
              CASE f.owner = "timer" ->
                       /\ f.stopReason \in {"max_duration", "inactivity"}
                       /\ Due(TimerOf(recorders[f.id], f.stopReason))
                [] f.owner = "finalizeAll" -> f.stopReason = "session_exit"
                [] OTHER -> f.stopReason = "explicit"
       /\ \A m \in returned' \ returned :
              LET fs == {f \in inflight : f.id = m.id}
              IN  IF fs # {}
                  THEN \A f \in fs : f \notin inflight' /\ m.stopReason = f.stopReason
                  ELSE m.stopReason = "explicit"]_vars

\* finalizeAll has finalized a recording and returned, and the metadata says
\* that the session's exit stopped it
C11_Witness ==
    /\ finalizeAllRun.phase = "resolved"
    /\ Len(finalizeAllRun.results) = 1
    /\ finalizeAllRun.results[1].stopReason = "session_exit"
    /\ finalizeAllRun.results[1] \in returned

\* a call of the manager has appended one event of this kind and data to
\* every registered Recording that was Active, and has left every Recording
\* that was Pending or Finalized as it was
Delivered(kind, data) ==
    \A id \in created :
        LET r  == recorders[id]
            r2 == recorders'[id]
        IN  /\ (id \in recordings /\ State(r) = "Active")
                   => /\ Len(r2.lines) = Len(r.lines) + 1
                      /\ SubSeq(r2.lines, 1, Len(r.lines)) = r.lines
                      /\ r2.lines[Len(r2.lines)].kind = kind
                      /\ r2.lines[Len(r2.lines)].data = data
            /\ State(r) # "Active" => r2 = r

C13_FailureIsolated ==
    \A a \in created, b \in created :
        (/\ a # b
         /\ process.failed = a
         /\ {a, b} \subseteq getActiveRecordings
         /\ Events(recorders[a]) # << >>
         /\ Events(recorders[b]) # << >>
         /\ Len(recorders[a].lines) \in WrittenNow(recorders[a])
         /\ Len(recorders[b].lines) \in WrittenNow(recorders[b]))
        => (process.state = "up" /\ b \notin process.lost)

\* a step leaves every Recording but id as it was: its fields, its timers,
\* its files, its place in the registry
OthersUnchanged(id) ==
    \A o \in AllIds \ {id} :
        /\ recorders'[o] = recorders[o]
        /\ files'[o] = files[o]
        /\ (o \in recordings') = (o \in recordings)

\* the timestamps of a Recording's events follow from its own start, its
\* own events and its own idleTimeLimit
OwnStamps(r) ==
    \A i \in 2..Len(r.lines) :
        r.lines[i].t =
            IF i = 2 THEN Seconds(r.lines[i].at - r.startTime)
            ELSE LET idle == Seconds(r.lines[i].at - r.lines[i - 1].at)
                 IN  FAdd(r.lines[i - 1].t,
                          IF r.idleTimeLimit > 0
                          THEN FMin(idle, Seconds(r.idleTimeLimit))
                          ELSE idle)

\* C14: start, a timer's expiry and a finalize of one Recording leave every
\* other Recording's state unchanged, an event that the manager delivers
\* changes the Active Recordings only, and each Recording stamps the events
\* it is fed according to its own idleTimeLimit.
C14_IndependentRecordings ==
    /\ [][/\ \A id \in AllIds, size \in Sizes : start(id, size) => OthersUnchanged(id)
          /\ \A id \in AllIds : autoFinalize(id, "inactivity") => OthersUnchanged(id)
          /\ \A id \in Stoppable, a \in FinalizeRecordingArgs :
                 finalizeRecording(id, a[1], a[2]) => OthersUnchanged(id)
          /\ \A f \in inflight :
                 (f.owner # "finalizeAll" /\ finalizeCommit(f)) => OthersUnchanged(f.id)
          /\ \A data \in Data, id \in AllIds :
                 (recordOutputToAll(data) /\ getActiveRecordings = {id})
                     => OthersUnchanged(id)]_vars
    /\ [](\A id \in created : OwnStamps(recorders[id]))

\* two Active Recordings started together and fed the same two events two
\* ticks apart: the one with a limit of one tick stamps the second event
\* one tick after the first, the one without a limit two ticks after it
C14_Witness ==
    LET a  == recorders["r1"]
        b  == recorders["r2"]
        ea == Events(a)
        eb == Events(b)
    IN  /\ {"r1", "r2"} \subseteq getActiveRecordings
        /\ a.idleTimeLimit = 1
        /\ b.idleTimeLimit = 0
        /\ a.startTime = b.startTime
        /\ Len(ea) = 2
        /\ Len(eb) = 2
        /\ \A i \in 1..2 : ea[i].at = eb[i].at /\ ea[i].kind = eb[i].kind
        /\ ea[2].at = ea[1].at + 2
        /\ ea[1].t = eb[1].t
        /\ ea[2].t = FAdd(ea[1].t, Seconds(1))
        /\ eb[2].t = FAdd(eb[1].t, Seconds(2))
        /\ ea[2].t # eb[2].t

\* C15: when a call of finalizeRecording for a registered id is over, the
\* Recording is no longer in the registry, whether it was saved or
\* discarded, and the call has returned the Recording's metadata; for an
\* unknown id the call signals absence.
C15_FinalizeRecordingRemoves ==
    \A id \in created :
        (call.op = "finalizeRecording" /\ call.id = id /\ call.result # "pending")
        => \/ call.result = "undefined" /\ id \notin recordings
           \/ /\ call.result \in {"saved", "discarded"}
              /\ id \notin recordings
              /\ \E m \in returned : m.id = id

\* the places of a Recording's metadata in the list finalizeAll returns
ResultsOf(id) ==
    {i \in 1..Len(finalizeAllRun.results) : finalizeAllRun.results[i].id = id}

\* C16 (as stated): when finalizeAll has completed, every Recording that was
\* Active when it was called has been finalized exactly once, with the
\* exitCode given and the stopReason session_exit, and the list returned
\* holds one metadata value for it.
C16_EveryActiveFinalizedByCall ==
    finalizeAllRun.phase = "resolved"
    => \A id \in finalizeAllRun.activeAtCall :
           /\ recorders[id].finalizeRuns = 1
           /\ Cardinality(ResultsOf(id)) = 1
           /\ \A f \in FinalizeResults(id) :
                  /\ f.exitCode = finalizeAllRun.exitCode
                  /\ f.stopReason = "session_exit"

\* C16 (amended): finalizeAll leaves the registry empty when it completes.
\* Every Recording that is Active when the loop reaches it is finalized by
\* this call, once, with the exitCode given and the stopReason session_exit,
\* and the list returned holds exactly these Recordings' metadata, one value
\* each.  A Recording that was Active when finalizeAll was called and that
\* its timer or another caller finalized before the loop reached it is
\* skipped: it has been finalized once, not by this call.
C16_FinalizeAllCompletes ==
    /\ [][(finalizeAllRun.phase # "resolved" /\ finalizeAllRun'.phase = "resolved")
              => recordings' = {}]_vars
    /\ [](finalizeAllRun.phase = "resolved"
             => /\ \A id \in finalizeAllRun.activeAtCall :
                       /\ recorders[id].finalized
                       /\ recorders[id].finalizeRuns = 1
                /\ \A id \in created :
                       /\ recorders[id].finalizeRuns <= 1
                       /\ Cardinality(ResultsOf(id)) <= 1
                       /\ \A m \in returned :
                              m.id = id
                              => ((\E i \in ResultsOf(id) : finalizeAllRun.results[i] = m)
                                     <=> m.stopReason = "session_exit")
                /\ \A i \in 1..Len(finalizeAllRun.results) :
                       LET m == finalizeAllRun.results[i]
                       IN  /\ m \in returned
                           /\ m.exitCode = finalizeAllRun.exitCode
                           /\ m.stopReason = "session_exit")

\* finalizeAll was called with both Recordings Active and has completed:
\* it finalized the first, whose metadata it returned, and skipped the
\* second, which its inactivity timer had finalized in the meantime
C16_Witness ==
    /\ finalizeAllRun.phase = "resolved"
    /\ finalizeAllRun.activeAtCall = {"r1", "r2"}
    /\ Len(finalizeAllRun.results) = 1
    /\ finalizeAllRun.results[1].id = "r1"
    /\ recordings = {}
    /\ \E m \in returned : m.id = "r2" /\ m.stopReason = "inactivity"

\* C17: when the commit of one Recording has failed during finalizeAll, the
\* other Recordings that were Active when finalizeAll was called are
\* finalized and removed from the registry all the same: none is left
\* Active, and none but the failed one is left registered.
C17_OthersStillFinalized ==
    finalizeAllRun.phase = "rejected"
    => /\ \A id \in finalizeAllRun.activeAtCall : ~isActive(recorders[id])
       /\ Cardinality(finalizeAllRun.activeAtCall \cap recordings) <= 1

Called(id) == \E i \in 1..Len(callbacks) : callbacks[i].id = id

\* C20: when a timer has ended a capture on which a callback is registered,
\* the callback is invoked, once, in the step that commits or discards the
\* file, with the metadata that finalize returned, whose exitCode is null
\* and whose stopReason is that timer's reason; it is never invoked when an
\* explicit finalize, finalizeRecording or finalizeAll ended the capture.
C20_CallbackOnTimerOnly ==
    /\ [][callbacks' # callbacks
              => \E m \in returned' \ returned :
                     /\ callbacks' = Append(callbacks, m)
                     /\ ~Called(m.id)
                     /\ m.exitCode = Null
                     /\ \E f \in inflight \ inflight' :
                            /\ f.id = m.id
                            /\ f.owner = "timer"
                            /\ f.stopReason = m.stopReason
                            /\ f.stopReason \in {"max_duration", "inactivity"}
                     /\ ~files'[m.id].temp
                     /\ files'[m.id].final = m.saved]_vars
    /\ [](\A m \in returned :
              m.stopReason \in {"explicit", "session_exit"} => ~Called(m.id))
    /\ \A id \in Ids :
           ((\E f \in inflight : f.id = id /\ f.owner = "timer")
                /\ recorders[id].onAutoFinalize)
           ~> Called(id)

\* the maximum-duration timer has ended a capture that had a callback: the
\* callback was invoked once, with the metadata finalize returned
C20_Witness ==
    /\ Len(callbacks) = 1
    /\ callbacks[1] \in returned
    /\ callbacks[1].stopReason = "max_duration"
    /\ callbacks[1].exitCode = Null
    /\ recorders[callbacks[1].id].onAutoFinalize

\* C21: recordOutput and recordResize on a Recording that is Pending or
\* Finalized do nothing: no line is appended, and bytesWritten,
\* adjustedElapsed, lastEventTime, both timers and everything else stay as
\* they were.
C21_EventsOutsideActiveAreNoOps ==
    [][\A id \in created :
          State(recorders[id]) # "Active"
          => /\ \A data \in Data : recordOutput(id, data) => UNCHANGED vars
             /\ \A size \in Sizes : recordResize(id, size) => UNCHANGED vars]_vars

\* a Recording that had one event was finalized while its inactivity timer
\* was armed, and a Recording like it can still be handed events: its log,
\* its counters and its timers are those of the moment of finalize
C21_Witness ==
    \E id \in created :
        LET r == recorders[id]
        IN  /\ State(r) = "Finalized"
            /\ r.writeStream # Null
            /\ Len(Events(r)) = 1
            /\ r.inactivityTimeout > 0
            /\ \E m \in returned : m.id = id /\ m.bytesWritten = r.bytesWritten

\* the kind and the payload of a line, as the file shows them
Shown(line) == <<line.kind, line.data>>

\* C22: the log of a Recording is the header followed by one line for every
\* event delivered while it was Active, in the order of delivery: an output
\* is a line of kind o with the text as given, a resize a line of kind r
\* with <cols>x<rows>; no other step adds, drops or rewrites a line, so the
\* log that is committed has exactly 1 + N lines.
C22_LogIsHeaderThenEvents ==
    /\ [](\A id \in created :
              LET r == recorders[id]
              IN  r.lines # << >>
                  => /\ r.lines[1].kind = "header"
                     /\ \A i \in 2..Len(r.lines) : r.lines[i].kind \in {"o", "r"})
    /\ [][\A id \in created :
              LET r == recorders[id]
                  lines == r.lines
              IN  /\ \A data \in Data :
                         recordOutput(id, data) /\ State(r) = "Active"
                         => /\ Len(recorders'[id].lines) = Len(lines) + 1
                            /\ SubSeq(recorders'[id].lines, 1, Len(lines)) = lines
                            /\ Shown(recorders'[id].lines[Len(lines) + 1]) = <<"o", data>>
                  /\ \A size \in Sizes :
                         recordResize(id, size) /\ State(r) = "Active"
                         => /\ Len(recorders'[id].lines) = Len(lines) + 1
                            /\ SubSeq(recorders'[id].lines, 1, Len(lines)) = lines
                            /\ Shown(recorders'[id].lines[Len(lines) + 1])
                                 = <<"r", ToString(size[1]) \o "x" \o ToString(size[2])>>
                  /\ recorders'[id].lines # lines
                     => \/ lines = << >> /\ Len(recorders'[id].lines) = 1
                        \/ /\ State(r) = "Active"
                           /\ Len(recorders'[id].lines) = Len(lines) + 1
                           /\ SubSeq(recorders'[id].lines, 1, Len(lines)) = lines]_vars

\* the example: mode always, started at 80x24, one output and then one
\* resize, finalize(0, explicit): three lines, saved, stopReason explicit
C22_Witness ==
    \E id \in created :
        LET r == recorders[id]
        IN  /\ r.mode = "always"
            /\ Len(r.lines) = 3
            /\ r.lines[1].kind = "header" /\ r.lines[1].size = <<80, 24>>
            /\ Shown(r.lines[2]) = <<"o", "a">>
            /\ Shown(r.lines[3]) = <<"r", "80x24">>
            /\ files[id].final /\ ~files[id].temp
            /\ \E m \in returned :
                   /\ m.id = id /\ m.saved /\ m.exitCode = "0"
                   /\ m.stopReason = "explicit"

\* C23: bytesWritten never decreases; it changes only in a step that
\* appends a line to a Recording that is Active once the line is written;
\* it stays as it is while a finalize call waits for the stream, and the
\* metadata a finalize call returns carries the value it had at the call.
C23_BytesWrittenOnlyGrowsWhileActive ==
    [][/\ \A id \in created :
              LET r  == recorders[id]
                  r2 == recorders'[id]
              IN  /\ r2.bytesWritten >= r.bytesWritten
                  /\ r2.bytesWritten # r.bytesWritten
                     => /\ Len(r2.lines) = Len(r.lines) + 1
                        /\ State(r2) = "Active"
                  /\ (\E f \in inflight : f.id = id)
                     => r2.bytesWritten = r.bytesWritten
       /\ \A m \in returned' \ returned :
              m.bytesWritten = recorders[m.id].bytesWritten]_vars

\* the bytes of a sequence of lines
RECURSIVE TotalBytes(_)
TotalBytes(lines) ==
    IF lines = << >> THEN 0 ELSE ByteLength(Head(lines)) + TotalBytes(Tail(lines))

\* C24 as stated: the bytesWritten of the metadata a finalize returns is
\* the byte length of the event lines, output and resize, without the
\* header line.
C24_BytesWrittenCountsEventsOnly ==
    [][\A m \in returned' \ returned :
           m.bytesWritten = TotalBytes(Events(recorders[m.id]))]_vars

\* C24: the bytesWritten of the metadata a finalize returns is the byte
\* length of every line written to the log: the header line and each output
\* and resize line.
C24_BytesWrittenCountsEveryLine ==
    [][\A m \in returned' \ returned :
           m.bytesWritten = TotalBytes(recorders[m.id].lines)]_vars

\* a Recording with a header, an output and a resize was finalized: its
\* metadata counts the three lines
C24_Witness ==
    \E m \in returned :
        LET r == recorders[m.id]
        IN  /\ Len(r.lines) = 3
            /\ {r.lines[2].kind, r.lines[3].kind} = {"o", "r"}
            /\ m.bytesWritten = TotalBytes(r.lines)
            /\ m.bytesWritten > TotalBytes(Events(r))

\* C25: a stopRecording request names the condition it met: for an id
\* that was never issued the answer is "Recording not found", and for an id
\* whose Recording is Finalized, by an earlier stop, by a timer or by the
\* end of the session, the answer is "Recording already finalized".
C25_StopNamesCondition ==
    [][\A id \in AllIds :
           handleStopRecording(id)
           => /\ id \notin created => call'.result = NotFoundError
              /\ (id \in created /\ State(recorders[id]) = "Finalized")
                 => call'.result = StopFinalizedError]_vars

\* the Recordings that are Active
ActiveNow == {id \in created : State(recorders[id]) = "Active"}

\* C26: whatever startRecording and stopRecording calls were made, with a
\* CLI recording or without, at most one Recording is Active; a
\* startRecording call made while a Recording is Active answers "A
\* recording is already in progress" and creates nothing.
C26_AtMostOneActive ==
    /\ [](Cardinality(ActiveNow) <= 1)
    /\ [][\A options \in ToolOptions :
              (handleStartRecording(options) /\ ActiveNow # {})
              => /\ call'.result = InProgressError
                 /\ UNCHANGED <<recorders, created, recordings, files>>]_vars

\* the CLI recording is Active
CliActive ==
    /\ terminal.autoRecordingId # Null
    /\ State(recorders[terminal.autoRecordingId]) = "Active"

\* C27: the CLI recording and the tools' recording are independent: a
\* startRecording call made while the CLI Recording is Active succeeds
\* and starts a Recording of its own, and stopping the tools' Recording
\* leaves the CLI Recording as it is, Active and registered.
C27_CliAndToolIndependent ==
    [][/\ \A options \in ToolOptions :
              (handleStartRecording(options) /\ CliActive)
              => /\ call'.result = "ok"
                 /\ State(recorders'[call'.id]) = "Active"
                 /\ call'.id # terminal.autoRecordingId
       /\ \A id \in AllIds \ {terminal.autoRecordingId} :
              (handleStopRecording(id) /\ CliActive)
              => /\ recorders'[terminal.autoRecordingId]
                      = recorders[terminal.autoRecordingId]
                 /\ terminal.autoRecordingId \in recordings']_vars

\* the Recorder that createRecording made from options has these fields
CreatedWith(r, options, modeWithoutAny) ==
    LET d == terminal.defaultOptions
        given == terminal.constructedWith
        Number(f, default) ==
            IF f \in DOMAIN options
            THEN IF options[f] = Undefined THEN default ELSE options[f]
            ELSE IF f \in DOMAIN given THEN given[f] ELSE default
    IN  /\ r.mode = IF "mode" \in DOMAIN options THEN options.mode
                    ELSE IF "mode" \in DOMAIN given THEN given.mode
                    ELSE modeWithoutAny
        /\ r.idleTimeLimit = Number("idleTimeLimit", 2)
        /\ r.maxDuration = Number("maxDuration", 3600)
        /\ r.inactivityTimeout = Number("inactivityTimeout", 600)

\* C28 as stated: a Recording created without a mode by a Registry
\* constructed without a mode has mode always; every field the options give
\* is the Recording's, every field they leave out is the Registry's default,
\* which is 2, 3600 and 600 for idleTimeLimit, maxDuration and
\* inactivityTimeout if the Registry was constructed without them.
C28_ModeDefaultsToAlways ==
    [][\A options \in CreateOptions :
           createRecordingPartial(options)
           => CreatedWith(recorders'[call'.id], options, "always")]_vars

\* C28: a Recording created without a mode by a Registry constructed
\* without a mode has mode off; every field the options give is the
\* Recording's, every field they leave out is the Registry's default, which
\* is 2, 3600 and 600 for idleTimeLimit, maxDuration and inactivityTimeout
\* if the Registry was constructed without them.
C28_ModeDefaultsToOff ==
    [][\A options \in CreateOptions :
           createRecordingPartial(options)
           => CreatedWith(recorders'[call'.id], options, "off")]_vars

\* a Registry constructed with an idleTimeLimit of 5 and nothing else has
\* created a Recording from options that give a maxDuration of 7 and nothing
\* else: mode off, 5, 7, 600
C28_Witness ==
    /\ DOMAIN terminal.constructedWith = {"idleTimeLimit"}
    /\ \E id \in created :
           LET r == recorders[id]
           IN  /\ r.mode = "off"
               /\ r.idleTimeLimit = 5
               /\ r.maxDuration = 7
               /\ r.inactivityTimeout = 600

\* C29: createRecording registers a Recording that is Pending, with no
\* write stream and no timer armed, under an id that no entry of the
\* registry has; the registry grows by exactly one entry and every entry it
\* had is the Recording it was.
C29_CreateRegistersFreshId ==
    [][\A options \in IdOptions :
           createRecordingAnyId(options)
           => LET id == call'.id
                  r  == recorders'[id]
              IN  /\ State(r) = "Pending"
                  /\ r.writeStream = Null
                  /\ \A tm \in Timers(r) : ~tm.armed
                  /\ id \notin recordings
                  /\ Cardinality(recordings') = Cardinality(recordings) + 1
                  /\ \A other \in recordings :
                         recorders'[other] = recorders[other]]_vars

\* the last call was a finalize whose renameSync threw
RenameFailed == "renameFailed" \in DOMAIN call /\ call.renameFailed

\* C30: a finalize whose rename fails falls back to copy and delete and
\* still completes: it returns metadata with saved = true, the log is at the
\* final path and no temp file is left.
C30_RenameFallbackSaves ==
    RenameFailed
    => /\ call.result = "saved"
       /\ files[call.id].final /\ ~files[call.id].temp
       /\ \E m \in returned : m.id = call.id /\ m.saved /\ m.path = "finalPath"

\* C31: a finalize whose rename fails, whose copy succeeds and whose
\* delete of the temp file fails is a success all the same: it returns
\* metadata with saved = true and the side-file is written next to the log
\* that is at the final path.
C31_LeakedTempIsSuccess ==
    (/\ RenameFailed
     /\ files[call.id].final
     /\ files[call.id].temp)
    => /\ call.result = "saved"
       /\ files[call.id].meta
       /\ \E m \in returned : m.id = call.id /\ m.saved

\* C32: a finalize that discards and finds no temp file does not fail: it
\* returns metadata with saved = false and an empty path, and the Recording
\* is Finalized.
C32_DiscardWithoutTempFile ==
    [][\A id \in created :
           (/\ call' # call
            /\ call'.id = id
            /\ "renameFailed" \in DOMAIN call'
            /\ ~call'.renameFailed
            /\ ~files[id].temp)
           => /\ call'.result = "discarded"
              /\ \E m \in returned' \ returned :
                     m.id = id /\ ~m.saved /\ m.path = ""
              /\ State(recorders'[id]) = "Finalized"
              /\ files'[id] = files[id]]_vars

\* a Recording that was never started, and so never had a temp file, was
\* finalized in a mode that discards
C32_Witness ==
    /\ call.op \in {"finalize", "finalizeRecording"}
    /\ call.result = "discarded"
    /\ recorders[call.id].writeStream = Null
    /\ recorders[call.id].finalized
    /\ ~files[call.id].temp
    /\ \E m \in returned : m.id = call.id /\ ~m.saved /\ m.path = ""

\* C33: a timer is armed only for an option that is not 0, and a timer
\* ends a Recording only for its own reason: a Recording with maxDuration 0
\* is never ended for max_duration, one with inactivityTimeout 0 never for
\* inactivity, and one with both 0 leaves the Active state only through a
\* finalize that a caller, finalizeRecording or finalizeAll makes.
C33_NoTimerNoAutoFinalize ==
    /\ [](\A id \in created :
              LET r == recorders[id]
              IN  /\ r.maxDuration = 0 => ~r.maxDurationTimer.set
                  /\ r.inactivityTimeout = 0 => ~r.inactivityTimer.set)
    /\ [][\A id \in created :
              LET r == recorders[id]
                  begun == {f \in inflight' \ inflight : f.id = id}
              IN  /\ \A f \in begun :
                         f.owner = "timer"
                         => \/ f.stopReason = "max_duration" /\ r.maxDuration > 0
                            \/ f.stopReason = "inactivity" /\ r.inactivityTimeout > 0
                  /\ (/\ State(r) = "Active"
                      /\ State(recorders'[id]) # "Active"
                      /\ r.maxDuration = 0
                      /\ r.inactivityTimeout = 0)
                     => \E f \in begun : f.owner # "timer"]_vars

\* a Recording with both options 0 is still Active three ticks after its
\* start, with no output since
C33_Witness ==
    \E id \in created :
        LET r == recorders[id]
        IN  /\ r.maxDuration = 0 /\ r.inactivityTimeout = 0
            /\ State(r) = "Active"
            /\ Events(r) = << >>
            /\ now - r.startTime >= 3

\* C34: the first event of a Recording is stamped with the time between
\* start and the event, in seconds, whatever idleTimeLimit is: the cap is
\* not applied to the time before the first event.
C34_FirstEventUncapped ==
    \A id \in created :
        LET r == recorders[id]
        IN  Events(r) # << >>
            => Events(r)[1].t = FDiv((Events(r)[1].at - r.startTime) * MsPerTick,
                                      MsPerSecond)

\* a Recording with an idleTimeLimit of one tick got its first event three
\* ticks after start and a second one later: the first stamp is the three
\* ticks, above the limit
C34_Witness ==
    \E id \in created :
        LET r == recorders[id]
        IN  /\ r.idleTimeLimit = 1
            /\ Len(Events(r)) = 2
            /\ Events(r)[1].at - r.startTime = 3
            /\ Events(r)[1].t = Seconds(3)
            /\ FLess(Seconds(r.idleTimeLimit), Events(r)[1].t)

\* the Recording was ended by one of its own timers
TimerEnded(r) == r.finalized /\ r.stopReason \in {"max_duration", "inactivity"}

\* C35: a Recording that one of its timers ended stays in the registry
\* and is not among the active Recordings as long as finalizeAll has not
\* run; the timer's finalize and its completion leave the registry as it
\* is; a finalizeRecording on such a Recording is rejected with the
\* already-finalized error and leaves the registry and the Recording as
\* they are (once finalizeAll has removed the entry, finalizeRecording
\* finds no Recording and returns undefined).
C35_TimerEndedStaysRegistered ==
    /\ [](\A id \in created :
              (TimerEnded(recorders[id]) /\ finalizeAllRun.phase = "idle")
              => id \in recordings /\ id \notin getActiveRecordings)
    /\ [][/\ \A id \in created, reason \in {"max_duration", "inactivity"} :
                 autoFinalize(id, reason) => recordings' = recordings
          /\ \A f \in inflight :
                 (f.owner = "timer" /\ finalizeCommit(f)) => recordings' = recordings
          /\ \A id \in created, a \in FinalizeRecordingArgs :
                 (/\ TimerEnded(recorders[id])
                  /\ id \in recordings
                  /\ finalizeRecording(id, a[1], a[2]))
                 => /\ call'.result = AlreadyFinalizedError
                    /\ recordings' = recordings
                    /\ recorders' = recorders
                    /\ returned' = returned]_vars

\* the inactivity timer ended a Recording, its finalize has returned its
\* metadata, and a finalizeRecording on it was rejected: the id is still
\* registered
C35_Witness ==
    /\ call.op = "finalizeRecording"
    /\ call.result = AlreadyFinalizedError
    /\ TimerEnded(recorders[call.id])
    /\ recorders[call.id].stopReason = "inactivity"
    /\ \E m \in returned : m.id = call.id /\ m.stopReason = "inactivity"
    /\ call.id \in recordings
    /\ call.id \notin getActiveRecordings

\* the last call was a finalize that failed with an error of the file system
FinalizeFailed ==
    /\ "renameFailed" \in DOMAIN call
    /\ call.result \in {"Error: ENOENT", "Error: copyFileSync", "Error: unlinkSync",
                        "Error: writeFileSync"}

\* C36: after a finalize that failed with a file-system error the
\* Recording is Finalized and not active, no metadata of it exists, its
\* entry is still in the registry if it was there, and every further
\* finalize or finalizeRecording on it is rejected as already finalized and
\* changes nothing.
C36_FailedFinalizeStillFinalizes ==
    /\ [](FinalizeFailed
          => /\ State(recorders[call.id]) = "Finalized"
             /\ ~isActive(recorders[call.id])
             /\ \A m \in returned : m.id # call.id
             /\ call.id \in recordings)
    /\ [][FinalizeFailed
          => /\ recordings' = recordings
             /\ \A a \in FinalizeArgs :
                    finalize(call.id, a[1], a[2])
                    => /\ call'.result = AlreadyFinalizedError
                       /\ UNCHANGED <<recorders, files, returned, inflight>>
             /\ \A a \in FinalizeRecordingArgs :
                    finalizeRecording(call.id, a[1], a[2])
                    => /\ call'.result = AlreadyFinalizedError
                       /\ UNCHANGED <<recorders, files, returned, inflight>>]_vars

\* the finalize that finalizeRecording made for a started Recording failed
\* in the copy that follows a failed rename: the temp file is still there,
\* nothing is at the final path
C36_Witness ==
    /\ FinalizeFailed
    /\ call.result = "Error: copyFileSync"
    /\ call.id \in recordings
    /\ recorders[call.id].finalized
    /\ files[call.id].temp /\ ~files[call.id].final

\* C37: once finalize has ended the write stream of a Recording, whatever
\* is delivered or called while the close is awaited and afterwards, no
\* line is appended to its log and bytesWritten stays as it is.
C37_NoWriteAfterEnd ==
    [][\A id \in created :
           recorders[id].writeStream = "ended"
           => /\ recorders'[id].lines = recorders[id].lines
              /\ recorders'[id].bytesWritten = recorders[id].bytesWritten
              /\ recorders'[id].writeStream = "ended"]_vars

\* a finalize waits for the stream of a Recording that has had one event
\* and can be handed more
C37_Witness ==
    \E f \in inflight :
        LET r == recorders[f.id]
        IN  /\ r.writeStream = "ended"
            /\ r.finalized
            /\ Len(Events(r)) = 1
            /\ r.bytesWritten = TotalBytes(r.lines)
            /\ returned = {}

\* the stopRecording requests whose finalizeRecording waits for the stream
Stopping(id) == {f \in inflight : f.id = id /\ f.owner = "manager"}

\* C38: of two stopRecording requests for one Active Recording that are
\* in progress together, the first finalizes it and returns its metadata and
\* the second is answered with an error and changes nothing; the Recording
\* is finalized once, it has one metadata, and when the first request
\* returns the id is not in the registry.
C38_ConcurrentStops ==
    /\ [](\A id \in created :
              /\ recorders[id].finalizeRuns <= 1
              /\ Cardinality(Stopping(id)) <= 1
              /\ Cardinality({m \in returned : m.id = id}) <= 1)
    /\ [][\A id \in created :
              /\ (Stopping(id) # {} /\ handleStopRecording(id))
                 => /\ call'.result \in {StopFinalizedError, NotFoundError}
                    /\ UNCHANGED <<recorders, recordings, files, inflight, returned>>
              /\ \A f \in Stopping(id) :
                     finalizeCommit(f)
                     => /\ call'.result \in {"saved", "discarded"}
                        /\ \E m \in returned' \ returned :
                               /\ m.id = id
                               /\ m.stopReason = "explicit"
                               /\ returned' = returned \cup {m}
                        /\ id \notin recordings']_vars

\* a second stopRecording request was answered already finalized while the
\* first one's finalize waits for the stream
C38_Witness ==
    /\ call.op = "stopRecording"
    /\ call.result = StopFinalizedError
    /\ Stopping(call.id) # {}
    /\ call.id \in recordings
    /\ returned = {}

\* C39: a Recording in mode on-failure that the stopRecording tool ends is
\* discarded: its metadata has saved = false, an empty path and exit code 0,
\* and nothing is at the final path; the metadata of a Recording in mode
\* on-failure has saved = true only if finalizeAll finalized it with an exit
\* code that is not 0.
C39_OnFailureStopDiscards ==
    /\ [](\A m \in returned :
              m.mode = "on-failure"
              => /\ m.stopReason = "explicit"
                    => /\ ~m.saved /\ m.path = "" /\ m.exitCode = "0"
                       /\ ~files[m.id].final
                 /\ m.saved
                    => /\ m.stopReason = "session_exit"
                       /\ m.exitCode \notin {"0", Null}
                       /\ m \in {finalizeAllRun.results[i] :
                                    i \in 1..Len(finalizeAllRun.results)})
    /\ [][\A id \in created :
              \A f \in Stopping(id) :
                  (recorders[id].mode = "on-failure" /\ finalizeCommit(f))
                  => /\ call'.result = "discarded"
                     /\ ~files'[id].final /\ ~files'[id].temp]_vars

\* one Recording in mode on-failure was stopped by the tool and discarded,
\* another was still Active when the session failed and is saved
C39_Witness ==
    \E m1, m2 \in returned :
        /\ m1.mode = "on-failure" /\ m2.mode = "on-failure"
        /\ m1.stopReason = "explicit" /\ ~m1.saved /\ m1.path = ""
        /\ m2.stopReason = "session_exit" /\ m2.saved /\ m2.exitCode = "7"
        /\ ~files[m1.id].final
        /\ files[m2.id].final

\* the Recordings startAutoRecording created: those with the --record mode
\* (the tools' Recordings considered have another)
AutoRecordings == {id \in created : recorders[id].mode = terminal.record}

====
